---------------------------- MODULE Spec2Model ----------------------------
(***************************************************************************)
(* Model of the banking-monitoring analytics core:                         *)
(*   src/PrometheusMetrics/datadriven/banking-monitoring/src/analytics/    *)
(*       anomaly_detector.py   (detectors, analyzer, engine)               *)
(*   src/PrometheusMetrics/datadriven/banking-monitoring/src/log_analysis/ *)
(*       log_analyzer.py       (LogEntry.parse)                            *)
(*                                                                         *)
(* Numbers.  The code works on Python ints and floats.  The model keeps    *)
(* every statistic as an exact rational built from integers: a mean is the *)
(* pair <<sum, n>>, and a comparison such as |x - mean| / stdev > t is     *)
(* decided on the squares, (n*x - sum)^2 / (n*sumsq - sum^2) against       *)
(* t^2 * n / (n-1), by FracGT, which never multiplies two large numbers.   *)
(* Indices reported by the detectors are Python's, starting at 0.          *)
(***************************************************************************)
EXTENDS Integers, Sequences, FiniteSets, TLC

VARIABLES
    values,   \* the caller's metric series
    txn_batch,\* the caller's transaction batch
    raw_line, \* the caller's raw log line
    clock,    \* the wall clock datetime.now() reads
    ret,      \* the last call made: operation, arguments, outcome
    entries,  \* LogAnalyzer.entries of each LogAnalyzer instance
    supplied, \* every line handed to load_logs of each instance so far
    pending,  \* the lines a running load_logs loop has still to visit
    pc,       \* where each thread stands in the call it is running
    series,   \* the series each thread passes to detect_metric_anomalies
    anomalies,\* the local list `anomalies` of each running engine call
    result,   \* what each thread's engine call returned
    logs,     \* PipelineDebugger.logs: the log texts the debugger holds
    accounts_db,      \* banking_app.accounts_db: the balance of each account
    transactions_log, \* banking_app.transactions_log
    frame     \* the locals of each request handler thread of banking_app

\* What the caller owns and passes in.
inputVars == <<values, txn_batch, raw_line>>

\* The long-lived objects: the LogAnalyzer instances, the threads that call
\* into the engine and the analyzers, and the PipelineDebugger.
\* The banking application's store and its handlers' locals.
bankVars == <<accounts_db, transactions_log, frame>>

sessionVars == <<entries, supplied, pending, pc, series, anomalies, result, logs,
                 bankVars>>

vars == <<inputVars, clock, ret, sessionVars>>

-----------------------------------------------------------------------------
(* Arithmetic helpers: what statistics.mean / variance / stdev compute.    *)

Abs(x) == IF x < 0 THEN -x ELSE x

RECURSIVE Sum(_)
Sum(s) == IF s = <<>> THEN 0 ELSE Head(s) + Sum(Tail(s))

RECURSIVE SumSq(_)
SumSq(s) == IF s = <<>> THEN 0 ELSE Head(s) * Head(s) + SumSq(Tail(s))

\* n*(n-1) times the sample variance of s: zero exactly when the variance is.
SSD(s) == Len(s) * SumSq(s) - Sum(s) * Sum(s)

\* a/b > c/d for a, c >= 0 and b, d > 0, by comparing continued fractions.
RECURSIVE FracGT(_, _, _, _)
FracGT(a, b, c, d) ==
    LET qa == a \div b
        qc == c \div d
        ra == a % b
        rc == c % d
    IN  IF qa # qc THEN qa > qc
        ELSE IF ra = 0 THEN FALSE
        ELSE IF rc = 0 THEN TRUE
        ELSE FracGT(d, rc, b, ra)

\* What the detectors need of a sample: its length, its sum and SSD.
Stats(s) == [n |-> Len(s), sum |-> Sum(s), ssd |-> SSD(s)]

\* The same test against the population deviation, pstdev, in place of the
\* sample deviation: d*d / ssd > t[1]^2 / t[2]^2.
ZExceeds_population(x, st, t) ==
    LET d == Abs(st.n * x - st.sum)
    IN  /\ d > 0
        /\ FracGT(d, st.ssd, t[1] * t[1], t[2] * t[2] * d)

\* |x - mean| / stdev > t[1]/t[2], for a sample with statistics st, st.ssd > 0
\* and t > 0: with d = |n*x - sum| that is d*d / ssd > t[1]^2 * n / (t[2]^2 * (n-1)),
\* compared as d / ssd > t[1]^2 * n / (t[2]^2 * (n-1) * d) to keep the numbers small.
ZExceeds(x, st, t) ==
    LET d == Abs(st.n * x - st.sum)
    IN  /\ d > 0
        /\ FracGT(d, st.ssd, t[1] * t[1] * st.n, t[2] * t[2] * (st.n - 1) * d)

\* statistics.mean(s) as the exact rational <<sum, n>>.
Mean(s) == <<Sum(s), Len(s)>>

\* Python's s[lo:hi] for 0 <= lo, with hi clipped to len(s).
Slice(s, lo, hi) ==
    LET h == IF hi > Len(s) THEN Len(s) ELSE hi
    IN  IF lo >= h THEN <<>> ELSE SubSeq(s, lo + 1, h)

\* The 0-based indices of s in ascending order (what enumerate walks).
Indices(s) == [k \in 1..Len(s) |-> k - 1]

\* sorted(s): ascending insertion sort.
RECURSIVE Insert(_, _)
Insert(x, s) ==
    IF s = <<>> THEN <<x>>
    ELSE IF x < Head(s) THEN <<x>> \o s
    ELSE <<Head(s)>> \o Insert(x, Tail(s))

RECURSIVE Sorted(_)
Sorted(s) == IF s = <<>> THEN <<>> ELSE Insert(Head(s), Sorted(Tail(s)))

\* A call's outcome: a returned value, or the exception that left the call.
Ok(v) == [raised |-> FALSE, exc |-> "", out |-> v]
Raise(e) == [raised |-> TRUE, exc |-> e, out |-> <<>>]

-----------------------------------------------------------------------------
(* ZScoreDetector                                                          *)

\* A detector built with a threshold of 1.5 instead of 2.5.
ZScoreThreshold_low == <<3, 2>>

\* ZScoreDetector.__init__'s default threshold, 2.5.
ZScoreDefaultThreshold == <<5, 2>>

\* The z-score of values[i] kept exactly: |n*x - sum| / n over sqrt(ssd/(n(n-1))).
ZStat(x, st) == [dev |-> Abs(st.n * x - st.sum), n |-> st.n, ssd |-> st.ssd]

ZScoreDetector_detect(vals, threshold) ==
    IF Len(vals) < 2 THEN <<>>
    ELSE LET st  == Stats(vals)
             hit == SelectSeq(Indices(vals),
                       LAMBDA i : ZExceeds(vals[i + 1], st, threshold))
         IN  IF st.ssd = 0 THEN <<>>
             ELSE [k \in 1..Len(hit) |->
                     [index |-> hit[k], z_score |-> ZStat(vals[hit[k] + 1], st)]]

-----------------------------------------------------------------------------
(* IQRDetector                                                             *)

\* IQRDetector.__init__'s default multiplier, 1.5.
IQRDefaultMultiplier == <<3, 2>>

\* 4 * statistics.quantiles(data, n=4)[i-1] for sorted data of length >= 2
\* (the default 'exclusive' method): j = i*(ld+1) // 4 clamped to 1..ld-1,
\* delta = i*(ld+1) - 4*j, and the cut is
\* (data[j-1]*(4-delta) + data[j]*delta) / 4 with Python's 0-based data.
Quartile4(data, i) ==
    LET ld == Len(data)
        m  == ld + 1
        j0 == (i * m) \div 4
        j  == IF j0 < 1 THEN 1 ELSE IF j0 > ld - 1 THEN ld - 1 ELSE j0
        delta == i * m - j * 4
    IN  data[j] * (4 - delta) + data[j + 1] * delta

\* 4 * mult[2] * lower_bound and 4 * mult[2] * upper_bound of IQRDetector.detect.
IQRLower(sorted_values, mult) ==
    LET q1 == Quartile4(sorted_values, 1)
        q3 == Quartile4(sorted_values, 3)
    IN  mult[2] * q1 - mult[1] * (q3 - q1)

IQRUpper(sorted_values, mult) ==
    LET q1 == Quartile4(sorted_values, 1)
        q3 == Quartile4(sorted_values, 3)
    IN  mult[2] * q3 + mult[1] * (q3 - q1)

\* values.sort(): the caller's list reordered in place.
values_sort_in_place(vals) == Sorted(vals)

\* The caller's list after IQRDetector.detect: line 101 is sorted(values),
\* which builds a new list; the loop of lines 110-114 only reads values.
values_after_sorted(vals) == vals

\* IQRDetector.detect computing its quartiles on the values as given, without
\* sorting them first.
IQRDetector_detect_unsorted(vals, mult) ==
    IF Len(vals) < 4 THEN <<>>
    ELSE LET lo  == IQRLower(vals, mult)
             hi  == IQRUpper(vals, mult)
             hit == SelectSeq(Indices(vals),
                       LAMBDA i : \/ 4 * mult[2] * vals[i + 1] < lo
                                  \/ 4 * mult[2] * vals[i + 1] > hi)
         IN  [k \in 1..Len(hit) |->
                 [index |-> hit[k],
                  outlier_type |-> IF 4 * mult[2] * vals[hit[k] + 1] < lo
                                   THEN "low_outlier" ELSE "high_outlier"]]

IQRDetector_detect(vals, mult) ==
    IF Len(vals) < 4 THEN <<>>
    ELSE LET sorted_values == Sorted(vals)
             lo  == IQRLower(sorted_values, mult)
             hi  == IQRUpper(sorted_values, mult)
             hit == SelectSeq(Indices(vals),
                       LAMBDA i : \/ 4 * mult[2] * vals[i + 1] < lo
                                  \/ 4 * mult[2] * vals[i + 1] > hi)
         IN  [k \in 1..Len(hit) |->
                 [index |-> hit[k],
                  outlier_type |-> IF 4 * mult[2] * vals[hit[k] + 1] < lo
                                   THEN "low_outlier" ELSE "high_outlier"]]

-----------------------------------------------------------------------------
(* MovingAverageDetector                                                   *)

\* MovingAverageDetector.__init__'s defaults: window_size 7, sigma 2.0.
MADefaultWindow == 7

MADefaultSigma == <<2, 1>>

\* The trailing window of index i (0-based): values[i - window_size : i].
MAWindow(vals, i, window_size) == Slice(vals, i - window_size, i)

\* The window test taken over values[i - window_size + 1 : i + 1], a window
\* that ends with the current point itself.
MAFlags_inclusive(vals, i, window_size, sigma) ==
    LET st == Stats(Slice(vals, i - window_size + 1, i + 1))
    IN  /\ st.ssd > 0
        /\ ZExceeds(vals[i + 1], st, sigma)

\* The test of one index: std > 0 and deviation > sigma * std, against the
\* mean and sample standard deviation of the window before it.
MAFlags(vals, i, window_size, sigma) ==
    LET st == Stats(MAWindow(vals, i, window_size))
    IN  /\ st.ssd > 0
        /\ ZExceeds(vals[i + 1], st, sigma)

\* deviation = |values[i] - mean(window)|, kept as |n*x - sum| over n.
MADeviation(vals, i, window_size) ==
    LET w == MAWindow(vals, i, window_size)
    IN  [dev |-> Abs(Len(w) * vals[i + 1] - Sum(w)), n |-> Len(w)]

\* The loop body runs for i in window_size .. len-1.  Its first statements
\* are statistics.mean(window), which raises on an empty window, and
\* statistics.variance(window), which raises on a window of one point.
MovingAverageDetector_detect(vals, window_size, sigma) ==
    IF Len(vals) < window_size THEN Ok(<<>>)
    ELSE IF Len(vals) = window_size THEN Ok(<<>>)
    ELSE IF window_size < 2 THEN Raise("StatisticsError")
    ELSE LET hit == SelectSeq(Indices(vals),
                       LAMBDA i : /\ i >= window_size
                                  /\ MAFlags(vals, i, window_size, sigma))
         IN  Ok([k \in 1..Len(hit) |->
                    [index |-> hit[k],
                     deviation |-> MADeviation(vals, hit[k], window_size)]])

-----------------------------------------------------------------------------
(* Timestamps and the wall clock                                           *)

\* The optional timestamps argument: None, or a list.
NoTimestamps == [given |-> FALSE, ts |-> <<>>]

\* "timestamps[i] if timestamps else datetime.now()": a list is used when it
\* is given and not empty; otherwise the wall clock is read.
StampOf(tsArg, i, now) ==
    IF tsArg.given /\ tsArg.ts # <<>> THEN tsArg.ts[i + 1] ELSE now

-----------------------------------------------------------------------------
(* SeasonalityDetector                                                     *)

\* SeasonalityDetector.__init__'s default period.
SeasonDefaultPeriod == 24

\* The z-score limit written into SeasonalityDetector.detect, 2.5.
SeasonZLimit == <<5, 2>>

\* A detector that measures every value against the whole series.
SeasonValues_whole_series(vals, period, i) == vals

\* seasons[season_idx]: the values at indices season_idx, season_idx+period, ...
RECURSIVE SeasonValues(_, _, _)
SeasonValues(vals, period, i) ==
    IF i >= Len(vals) THEN <<>>
    ELSE <<vals[i + 1]>> \o SeasonValues(vals, period, i + period)

\* The anomalies of one season, in ascending index order.
SeasonAnomalies(vals, tsArg, period, season_idx, now) ==
    LET season_values == SeasonValues(vals, period, season_idx)
        st  == Stats(season_values)
        hit == SelectSeq(Indices(vals),
                  LAMBDA i : /\ i % period = season_idx
                             /\ st.ssd > 0
                             /\ ZExceeds(vals[i + 1], st, SeasonZLimit))
    IN  IF Len(season_values) < 2 THEN <<>>
        ELSE [k \in 1..Len(hit) |->
                [timestamp      |-> StampOf(tsArg, hit[k], now),
                 metric_name    |-> <<"metric_index_", hit[k]>>,
                 value          |-> vals[hit[k] + 1],
                 expected_value |-> Mean(season_values),
                 anomaly_type   |-> "seasonal",
                 severity       |-> "medium",
                 description    |-> <<"Deviation from seasonal pattern (z-score)",
                                      ZStat(vals[hit[k] + 1], st)>>,
                 context        |-> [season_index |-> season_idx,
                                     z_score |-> ZStat(vals[hit[k] + 1], st)]]]

\* The seasons dict is filled in index order, so its keys are 0, 1, ... in
\* ascending order, one per residue that occurs.
RECURSIVE SeasonsFrom(_, _, _, _, _)
SeasonsFrom(vals, tsArg, period, season_idx, now) ==
    IF season_idx >= period \/ season_idx >= Len(vals) THEN <<>>
    ELSE SeasonAnomalies(vals, tsArg, period, season_idx, now)
            \o SeasonsFrom(vals, tsArg, period, season_idx + 1, now)

\* "i % self.period" divides by zero on the first value when period is 0.
SeasonalityDetector_detect(vals, tsArg, period, now) ==
    IF Len(vals) < period * 2 THEN Ok(<<>>)
    ELSE IF period = 0 THEN (IF vals = <<>> THEN Ok(<<>>) ELSE Raise("ZeroDivisionError"))
    ELSE Ok(SeasonsFrom(vals, tsArg, period, 0, now))

-----------------------------------------------------------------------------
(* BehaviorAnalyzer                                                        *)

\* detect_level_shift's default threshold, 2.0.
LevelShiftDefaultThreshold == <<2, 1>>

\* One index of detect_trend_change: before = values[i-window : i],
\* after = values[i : i+window]; the two directions differ.
TrendChanges(vals, i, window) ==
    LET before == Slice(vals, i - window, i)
        after  == Slice(vals, i, i + window)
        before_trend == IF after[1] > before[1] THEN 1 ELSE -1
        after_trend  == IF after[Len(after)] > after[1] THEN 1 ELSE -1
    IN  before_trend # after_trend

\* With window 0 the loop runs over every index with empty windows, and
\* after[0] raises on the first one.
BehaviorAnalyzer_detect_trend_change(vals, window) ==
    IF Len(vals) < window * 2 THEN Ok(<<>>)
    ELSE IF Len(vals) - window <= window THEN Ok(<<>>)
    ELSE IF window = 0 THEN Raise("IndexError")
    ELSE Ok(SelectSeq(Indices(vals),
               LAMBDA i : /\ i >= window
                          /\ i < Len(vals) - window
                          /\ TrendChanges(vals, i, window)))

\* A detect_level_shift dividing by the deviation of the trailing window
\* alone: (Sa - Sb)^2 / ssd(before) > threshold^2 * w / (w - 1).
LevelShifts_std_of_before(vals, i, window, threshold) ==
    LET before == Slice(vals, i - window, i)
        after  == Slice(vals, i, i + window)
        d      == Abs(Sum(after) - Sum(before))
    IN  /\ window > 1
        /\ SSD(before) > 0
        /\ FracGT(d * d, SSD(before),
                  threshold[1] * threshold[1] * window,
                  threshold[2] * threshold[2] * (window - 1))

\* One index of detect_level_shift: combined_std > 0 and
\* |mean_after - mean_before| / combined_std > threshold, over windows of
\* the same length w: (Sa - Sb)^2 / ssd > threshold^2 * w / (2 * (2w - 1)).
LevelShifts(vals, i, window, threshold) ==
    LET before == Slice(vals, i - window, i)
        after  == Slice(vals, i, i + window)
        both   == before \o after
        d      == Abs(Sum(after) - Sum(before))
    IN  /\ SSD(both) > 0
        /\ FracGT(d * d, SSD(both),
                  threshold[1] * threshold[1] * window,
                  threshold[2] * threshold[2] * 2 * (2 * window - 1))

\* With window 0 statistics.mean(before) raises on the first index.
BehaviorAnalyzer_detect_level_shift(vals, window, threshold) ==
    IF Len(vals) < window * 2 THEN Ok(<<>>)
    ELSE IF Len(vals) - window <= window THEN Ok(<<>>)
    ELSE IF window = 0 THEN Raise("StatisticsError")
    ELSE Ok(SelectSeq(Indices(vals),
               LAMBDA i : /\ i >= window
                          /\ i < Len(vals) - window
                          /\ LevelShifts(vals, i, window, threshold)))

-----------------------------------------------------------------------------
(* AnomalyDetectionEngine                                                  *)

\* An engine that rates a z-score anomaly high from 3.0 on.
EngineHighZ_low == <<3, 1>>

\* The z-score above which the engine grades a z-score anomaly 'high', 3.5.
EngineHighZ == <<7, 2>>

\* The engine returns nothing for fewer than this many values.
EngineMinPoints == 3

\* statistics.median(values): the middle value, or the mean of the two
\* middle values, as an exact rational.
Median(vals) ==
    LET data == Sorted(vals)
        n    == Len(data)
    IN  IF n % 2 = 1 THEN <<data[(n \div 2) + 1], 1>>
        ELSE <<data[n \div 2] + data[(n \div 2) + 1], 2>>

\* The anomalies built from zscore_results.
EngineZScorePart(metric_name, vals, tsArg, now) ==
    LET zscore_results == ZScoreDetector_detect(vals, ZScoreDefaultThreshold)
    IN  [k \in 1..Len(zscore_results) |->
            LET idx == zscore_results[k].index
            IN  [timestamp      |-> StampOf(tsArg, idx, now),
                 metric_name    |-> metric_name,
                 value          |-> vals[idx + 1],
                 expected_value |-> Mean(vals),
                 anomaly_type   |-> "statistical",
                 severity       |-> IF ZExceeds(vals[idx + 1], Stats(vals), EngineHighZ)
                                    THEN "high" ELSE "medium",
                 description    |-> <<"Z-score anomaly", zscore_results[k].z_score>>,
                 context        |-> [z_score |-> zscore_results[k].z_score,
                                     index |-> idx]]]

\* The anomalies built from iqr_results.
EngineIQRPart(metric_name, vals, tsArg, now) ==
    LET iqr_results == IQRDetector_detect(vals, IQRDefaultMultiplier)
    IN  [k \in 1..Len(iqr_results) |->
            LET idx == iqr_results[k].index
            IN  [timestamp      |-> StampOf(tsArg, idx, now),
                 metric_name    |-> metric_name,
                 value          |-> vals[idx + 1],
                 expected_value |-> Median(vals),
                 anomaly_type   |-> "statistical",
                 severity       |-> "medium",
                 description    |-> <<"IQR-based outlier", iqr_results[k].outlier_type>>,
                 context        |-> [outlier_type |-> iqr_results[k].outlier_type,
                                     index |-> idx]]]

\* The anomalies built from ma_results (window 7: the detector cannot raise).
EngineMAPart(metric_name, vals, tsArg, now) ==
    LET ma_results ==
            MovingAverageDetector_detect(vals, MADefaultWindow, MADefaultSigma).out
    IN  [k \in 1..Len(ma_results) |->
            LET idx == ma_results[k].index
            IN  [timestamp      |-> StampOf(tsArg, idx, now),
                 metric_name    |-> metric_name,
                 value          |-> vals[idx + 1],
                 expected_value |-> Mean(vals),
                 anomaly_type   |-> "statistical",
                 severity       |-> "medium",
                 description    |-> <<"Moving average deviation", ma_results[k].deviation>>,
                 context        |-> [deviation |-> ma_results[k].deviation,
                                     index |-> idx]]]

\* An engine that drops an IQR or moving-average anomaly whose index an
\* earlier detector has already reported.
detect_metric_anomalies_dedup(metric_name, vals, tsArg, now) ==
    IF Len(vals) < EngineMinPoints THEN <<>>
    ELSE LET z == EngineZScorePart(metric_name, vals, tsArg, now)
             q == SelectSeq(EngineIQRPart(metric_name, vals, tsArg, now),
                    LAMBDA a : \A k \in 1..Len(z) : z[k].context.index # a.context.index)
             m == SelectSeq(EngineMAPart(metric_name, vals, tsArg, now),
                    LAMBDA a : \A k \in 1..Len(z \o q) :
                                  (z \o q)[k].context.index # a.context.index)
         IN  z \o q \o m

detect_metric_anomalies(metric_name, vals, tsArg, now) ==
    IF Len(vals) < EngineMinPoints THEN <<>>
    ELSE EngineZScorePart(metric_name, vals, tsArg, now)
            \o EngineIQRPart(metric_name, vals, tsArg, now)
            \o EngineMAPart(metric_name, vals, tsArg, now)

-----------------------------------------------------------------------------
(* ContextualAnomalyDetector: transaction records                          *)
(*                                                                         *)
(* A transaction is a record; a key the dict lacks is a field the record   *)
(* lacks.  A timestamp string is [form, t]: an ISO-8601 string of instant  *)
(* t as isoformat writes it, 'YYYY-MM-DDTHH:MM:SS' ("iso"), the same with  *)
(* a space for the T, as str(datetime) writes it ("iso_space"), the empty  *)
(* string ("empty"), or text that is no timestamp ("garbage").  All        *)
(* instants are seconds of one day.                                        *)

IsoString(t) == [form |-> "iso", t |-> t]

IsoSpaceString(t) == [form |-> "iso_space", t |-> t]

EmptyString == [form |-> "empty", t |-> 0]

GarbageString == [form |-> "garbage", t |-> 0]

\* datetime.isoformat: the string of an instant.
isoformat(t) == IsoString(t)

\* datetime.fromisoformat: the instant of a well-formed string, ValueError
\* for anything else.
fromisoformat(str) ==
    IF str.form \in {"iso", "iso_space"} THEN Ok(str.t) ELSE Raise("ValueError")

\* Python's string order on these strings: '' first, then the ISO strings,
\* then text starting with a letter.  ISO strings of one layout are in time
\* order; on the same date a space sorts before a 'T' whatever the time.
StrKey(str) ==
    IF str.form = "empty" THEN <<0, 0>>
    ELSE IF str.form = "iso_space" THEN <<1, str.t>>
    ELSE IF str.form = "iso" THEN <<2, str.t>>
    ELSE <<3, 0>>

StrLess(a, b) ==
    \/ StrKey(a)[1] < StrKey(b)[1]
    \/ StrKey(a)[1] = StrKey(b)[1] /\ StrKey(a)[2] < StrKey(b)[2]

\* txn.get('amount', 0)
AmountOf(txn) == IF "amount" \in DOMAIN txn THEN txn.amount ELSE 0

\* txn.get('timestamp', default)
TimestampOf(txn, default) == IF "timestamp" \in DOMAIN txn THEN txn.timestamp ELSE default

\* txn.get(key) for the identifiers copied into an anomaly's context.
GetOrNone(txn, key) == IF key \in DOMAIN txn THEN txn[key] ELSE "None"

\* The z-score above which a transaction amount is flagged, 3.0.
LargeTxnZ == <<3, 1>>

\* The test on the absolute z-score: an amount far below the mean is
\* flagged too.
LargeTransaction_abs(amount, st) ==
    /\ st.ssd > 0
    /\ ZExceeds(amount, st, LargeTxnZ)

\* The signed z-score of an amount exceeds +3.0: stdev_amount > 0, the
\* amount lies above the mean, and its z-score exceeds 3.0.
LargeTransaction(amount, st) ==
    /\ st.ssd > 0
    /\ st.n * amount - st.sum > 0
    /\ ZExceeds(amount, st, LargeTxnZ)

\* The caller's batch after detect_fraud_patterns: the per-account lists are
\* new lists, sorted(txns, key=...) builds another, and records are only read
\* with .get.
transactions_after_sorted(transactions) == transactions

\* The Anomaly built for transaction i (0-based); fromisoformat has already
\* been seen to succeed on its timestamp.
TransactionAnomaly(txn, st, now) ==
    [timestamp      |-> fromisoformat(TimestampOf(txn, isoformat(now))).out,
     metric_name    |-> "transaction_amount",
     value          |-> AmountOf(txn),
     expected_value |-> <<st.sum, st.n>>,
     anomaly_type   |-> "contextual",
     severity       |-> "high",
     description    |-> <<"Unusually large transaction", AmountOf(txn)>>,
     context        |-> [transaction_id |-> GetOrNone(txn, "transaction_id"),
                         from_account   |-> GetOrNone(txn, "from_account"),
                         z_score        |-> ZStat(AmountOf(txn), st)]]

\* The Anomaly constructor evaluates datetime.fromisoformat(...) outside any
\* try block: the first flagged record whose timestamp does not parse ends
\* the call with ValueError.
detect_transaction_anomalies(transactions, now) ==
    IF transactions = <<>> THEN Ok(<<>>)
    ELSE LET amounts == [k \in 1..Len(transactions) |-> AmountOf(transactions[k])]
             st      == Stats(amounts)
             hit     == SelectSeq(Indices(transactions),
                           LAMBDA i : LargeTransaction(amounts[i + 1], st))
         IN  IF \E k \in 1..Len(hit) :
                    fromisoformat(TimestampOf(transactions[hit[k] + 1],
                                              isoformat(now))).raised
             THEN Raise("ValueError")
             ELSE Ok([k \in 1..Len(hit) |->
                        TransactionAnomaly(transactions[hit[k] + 1], st, now)])

\* An account needs this many records before its gaps are examined, and only
\* the first this-many records (in timestamp order) are examined.
FraudMinTxns == 5

\* A gap below this many seconds is rapid.
FraudGapLimit == 60

\* The expected gap written into a rapid-transaction anomaly.
FraudExpectedGap == 300

\* txn.get('from_account', 'unknown')
AccountOf(txn) == IF "from_account" \in DOMAIN txn THEN txn.from_account ELSE "unknown"

\* The keys of account_txns in insertion order: each account at its first record.
RECURSIVE AccountOrder(_, _)
AccountOrder(transactions, seen) ==
    IF transactions = <<>> THEN <<>>
    ELSE LET a == AccountOf(Head(transactions))
         IN  IF a \in seen THEN AccountOrder(Tail(transactions), seen)
             ELSE <<a>> \o AccountOrder(Tail(transactions), seen \cup {a})

\* account_txns[account_id]: the account's records in batch order.
AccountTxns(transactions, account_id) ==
    SelectSeq(transactions, LAMBDA txn : AccountOf(txn) = account_id)

\* sorted(txns, key=lambda x: x.get('timestamp', '')): stable, by string order.
RECURSIVE InsertByTimestamp(_, _)
InsertByTimestamp(txn, sorted_txns) ==
    IF sorted_txns = <<>> THEN <<txn>>
    ELSE IF StrLess(TimestampOf(Head(sorted_txns), EmptyString),
                    TimestampOf(txn, EmptyString))
         THEN <<Head(sorted_txns)>> \o InsertByTimestamp(txn, Tail(sorted_txns))
         ELSE <<txn>> \o sorted_txns

RECURSIVE SortByTimestamp(_)
SortByTimestamp(txns) ==
    IF txns = <<>> THEN <<>>
    ELSE InsertByTimestamp(Head(txns), SortByTimestamp(Tail(txns)))

\* The pair test with "gap <= 60": a gap of exactly one minute is rapid.
FraudPair_inclusive(account_id, sorted_txns, i) ==
    LET t1 == fromisoformat(TimestampOf(sorted_txns[i], EmptyString))
        t2 == fromisoformat(TimestampOf(sorted_txns[i + 1], EmptyString))
        gap == t2.out - t1.out
    IN  IF t1.raised \/ t2.raised THEN <<>>
        ELSE IF gap <= FraudGapLimit
        THEN <<[timestamp      |-> t2.out,
                metric_name    |-> "transaction_frequency",
                value          |-> gap,
                expected_value |-> <<FraudExpectedGap, 1>>,
                anomaly_type   |-> "behavioral",
                severity       |-> "critical",
                description    |-> <<"Rapid consecutive transactions detected">>,
                context        |-> [account_id |-> account_id, gap_seconds |-> gap]]>>
        ELSE <<>>

\* One pass of the loop body for pair (i-1, i) of the sorted records: the
\* anomaly it appends, if any.  A ValueError from either fromisoformat is
\* caught and the pair is passed over.
FraudPair(account_id, sorted_txns, i) ==
    LET t1 == fromisoformat(TimestampOf(sorted_txns[i], EmptyString))
        t2 == fromisoformat(TimestampOf(sorted_txns[i + 1], EmptyString))
        gap == t2.out - t1.out
    IN  IF t1.raised \/ t2.raised THEN <<>>
        ELSE IF gap < FraudGapLimit
        THEN <<[timestamp      |-> t2.out,
                metric_name    |-> "transaction_frequency",
                value          |-> gap,
                expected_value |-> <<FraudExpectedGap, 1>>,
                anomaly_type   |-> "behavioral",
                severity       |-> "critical",
                description    |-> <<"Rapid consecutive transactions detected">>,
                context        |-> [account_id |-> account_id, gap_seconds |-> gap]]>>
        ELSE <<>>

\* for i in range(1, min(5, len(sorted_txns))), from pair i on.
RECURSIVE FraudPairsFrom(_, _, _)
FraudPairsFrom(account_id, sorted_txns, i) ==
    IF i >= FraudMinTxns \/ i >= Len(sorted_txns) THEN <<>>
    ELSE FraudPair(account_id, sorted_txns, i)
            \o FraudPairsFrom(account_id, sorted_txns, i + 1)

\* The anomalies of one account.
FraudOfAccount(transactions, account_id) ==
    LET txns == AccountTxns(transactions, account_id)
    IN  IF Len(txns) >= FraudMinTxns
        THEN FraudPairsFrom(account_id, SortByTimestamp(txns), 1)
        ELSE <<>>

RECURSIVE FraudOfAccounts(_, _)
FraudOfAccounts(transactions, accounts) ==
    IF accounts = <<>> THEN <<>>
    ELSE FraudOfAccount(transactions, Head(accounts))
            \o FraudOfAccounts(transactions, Tail(accounts))

detect_fraud_patterns(transactions) ==
    IF transactions = <<>> THEN <<>>
    ELSE FraudOfAccounts(transactions, AccountOrder(transactions, {}))

\* detect_all_anomalies: one entry per metric name, then (for a non-empty
\* batch) the entry 'transactions', which replaces a metric of that name.
\* metrics_data is a function from metric names to series.
detect_all_anomalies(metrics_data, transaction_data, now) ==
    LET metric_part == [name \in DOMAIN metrics_data |->
                           detect_metric_anomalies(name, metrics_data[name],
                                                   NoTimestamps, now)]
        large == detect_transaction_anomalies(transaction_data, now)
        fraud == detect_fraud_patterns(transaction_data)
    IN  IF transaction_data = <<>> THEN Ok(metric_part)
        ELSE IF large.raised THEN large
        ELSE Ok([name \in DOMAIN metrics_data \cup {"transactions"} |->
                    IF name = "transactions" THEN large.out \o fraud
                    ELSE metric_part[name]])

-----------------------------------------------------------------------------
(* Inputs                                                                  *)

MaxLen == 3          \* every series over SmallVals up to this length
MaxVal == 2          \* SmallVals = 0..MaxVal
MaxSpikeLen == 10    \* base-plus-one-spike series up to this length
MaxWindow == 2       \* configured window sizes 0..MaxWindow (and the defaults)
MaxPeriod == 2       \* configured season periods 1..MaxPeriod
MaxClock == 1        \* the wall clock advances this far

SmallVals == 0..MaxVal

RECURSIVE SeqsUpTo(_, _)
SeqsUpTo(S, n) ==
    IF n = 0 THEN {<<>>}
    ELSE LET shorter == SeqsUpTo(S, n - 1)
         IN  shorter \cup {Append(q, x) : q \in {r \in shorter : Len(r) = n - 1}, x \in S}

\* A series of length n that is constant 5 (flat) or alternates 1, 0, 1, ...
\* except for one spike v at position pos (pos = 0: no spike).
SpikeSeries(n, flat, pos, v) ==
    [k \in 1..n |-> IF k = pos THEN v ELSE IF flat THEN 5 ELSE k % 2]

SpikeInputs ==
    {SpikeSeries(n, flat, pos, v) :
        n \in 0..MaxSpikeLen, flat \in BOOLEAN, pos \in 0..MaxSpikeLen, v \in {-100, 100}}

\* The series the specification and examples.py name.
DailyTransactions ==
    <<100, 105, 110, 108, 102, 95, 90, 88, 85, 92,
      200, 205, 210, 220, 230, 215, 210, 205, 200, 195>>

ExampleAmounts == <<500, 520, 480, 510, 495, 505, 490, 515, 5000, 510, 500>>

\* Fifteen steady readings and one far off: with sixteen points a single
\* value can lie more than 3.5 standard deviations from the mean.
LongSpike == SpikeSeries(16, TRUE, 16, 100)

\* Twenty readings alternating 1, 0 with the last one far off: with period 2
\* the far reading sits in a season of ten.
SeasonalSpike == SpikeSeries(20, FALSE, 20, 100)

NamedInputs ==
    { LongSpike,
      SeasonalSpike,
      <<10, 10, 10, 10, 100>>,
      <<1, 2, 3, 4, 5, 6, 7, 100>>,
      <<1, 2, 3>>,
      <<5, 5, 5, 5, 5, 5, 5, 5>>,
      DailyTransactions,
      ExampleAmounts }

SeriesInputs == SeqsUpTo(SmallVals, MaxLen) \cup SpikeInputs \cup NamedInputs

\* A timestamps list of the series' length: one instant per value.
GivenTimestamps(vals) == [given |-> TRUE, ts |-> [k \in 1..Len(vals) |-> 1000 + k]]

TimestampArgs(vals) == {NoTimestamps, GivenTimestamps(vals)}

WindowSizes == (1..MaxWindow) \cup {5, MADefaultWindow}

BehaviorWindows == (0..MaxWindow) \cup {10}

Periods == 1..MaxPeriod

\* Thresholds passed to detect_level_shift: 1.0, 1.5, the default 2.0, 2.5, 3.0.
LevelThresholds == {<<1, 1>>, <<3, 2>>, LevelShiftDefaultThreshold, <<5, 2>>, <<3, 1>>}

\* The metric name the series is passed under (examples.py).
MetricName == "transaction_amount"

MaxTxns == 5         \* gap batches of up to this many records

\* Seconds between consecutive records of a gap batch.
Gaps == {20, 59, 60, 600}

TxnIds ==
    <<"TXN-0", "TXN-1", "TXN-2", "TXN-3", "TXN-4", "TXN-5",
      "TXN-6", "TXN-7", "TXN-8", "TXN-9", "TXN-10", "TXN-11">>

\* A transaction record as banking_app and examples.py build it.
Txn(k, account, amount, t) ==
    [transaction_id |-> TxnIds[k], from_account |-> account,
     amount |-> amount, timestamp |-> isoformat(t)]

\* The record with its timestamp made unparsable, or with no timestamp key.
Spoil(txn, mode) ==
    IF mode = "garbage" THEN [txn EXCEPT !.timestamp = GarbageString]
    ELSE [key \in DOMAIN txn \ {"timestamp"} |-> txn[key]]

Reverse(q) == [k \in 1..Len(q) |-> q[Len(q) + 1 - k]]

\* The instants of records separated by the given gaps, the first at 0.
RECURSIVE Instants(_)
Instants(gaps) ==
    IF gaps = <<>> THEN <<0>>
    ELSE LET before == Instants(SubSeq(gaps, 1, Len(gaps) - 1))
         IN  Append(before, before[Len(before)] + gaps[Len(gaps)])

\* One account's records separated by the given gaps (examples.py, example 5).
GapBatch(gaps) ==
    LET at == Instants(gaps)
    IN  [k \in 1..Len(at) |-> Txn(k, "ACC-FRAUD-TEST", 1000 + (k - 1) * 100, at[k])]

GapBatches ==
    {<<>>} \cup
    UNION {{GapBatch(g), Reverse(GapBatch(g))} :
              g \in UNION {[1..n -> Gaps] : n \in 0..MaxTxns - 1}}

\* Five records 20 s or 600 s apart, some of them with a spoiled timestamp.
SpoiledBatches ==
    {[k \in 1..5 |-> IF k \in bad THEN Spoil(GapBatch(<<g, g, g, g>>)[k], mode)
                                   ELSE GapBatch(<<g, g, g, g>>)[k]] :
        g \in {20, 600}, bad \in SUBSET (1..5) \ {{}}, mode \in {"garbage", "missing"}}

\* The example amounts, 10 minutes apart, with the large amount as given,
\* replaced by an ordinary or by a very small one, from one account or two,
\* and with at most one spoiled timestamp.
AmountBatch(big, two, bad, mode) ==
    [k \in 1..Len(ExampleAmounts) |->
        LET txn == Txn(k, IF two /\ k % 2 = 0 THEN "ACC-2" ELSE "ACC-1",
                       IF ExampleAmounts[k] = 5000 THEN big ELSE ExampleAmounts[k],
                       600 * k)
        IN  IF k = bad THEN Spoil(txn, mode) ELSE txn]

AmountBatches ==
    {AmountBatch(big, two, bad, mode) :
        big \in {5000, 600, -5000}, two \in BOOLEAN,
        bad \in 0..Len(ExampleAmounts), mode \in {"garbage", "missing"}}

TxnInputs == GapBatches \cup SpoiledBatches \cup AmountBatches

MaxFraudTxns == 7    \* fraud batches of up to this many instants

\* The second account of the fraud batches.
OtherAccount == "ACC-OTHER"

\* Records at the instants the gaps give; record number spaced (if any) has
\* its timestamp in the space layout.  From one account ("one"), with the
\* first two from another account ("split"), or each instant once from
\* either account ("both").
FraudBatch(gaps, accounts, spaced) ==
    LET one == [k \in 1..Len(gaps) + 1 |->
                  IF k = spaced
                  THEN [GapBatch(gaps)[k] EXCEPT !.timestamp = IsoSpaceString(@.t)]
                  ELSE GapBatch(gaps)[k]]
    IN  IF accounts = "one" THEN one
        ELSE IF accounts = "split"
        THEN [k \in 1..Len(one) |->
                IF k <= 2 THEN [one[k] EXCEPT !.from_account = OtherAccount]
                ELSE one[k]]
        ELSE [k \in 1..2 * Len(one) |->
                IF k % 2 = 1 THEN one[(k + 1) \div 2]
                ELSE [one[k \div 2] EXCEPT !.from_account = OtherAccount]]

FraudBatches ==
    {<<>>} \cup
    UNION {{FraudBatch(g, accounts, spaced), Reverse(FraudBatch(g, accounts, spaced))} :
              g \in UNION {[1..n -> {20, 600}] : n \in 0..MaxFraudTxns - 1},
              accounts \in {"one", "split", "both"},
              spaced \in {0, 1, 5, 6}}

-----------------------------------------------------------------------------
(* The calls                                                               *)

\* Two threads, each with a LogAnalyzer instance of its own.
Threads == {"A", "B"}

\* What a thread holds of its engine call: nothing yet, or the returned list.
NotReturned == [done |-> FALSE, out |-> <<>>]

Returned(out) == [done |-> TRUE, out |-> out]

\* No thread has started anything and every analyzer is freshly constructed
\* (LogAnalyzer.__init__: self.entries = []).
\* No analyzer holds anything, no thread has started, the debugger is new.
NoAnalysis ==
    /\ entries = [t \in Threads |-> <<>>]
    /\ supplied = [t \in Threads |-> <<>>]
    /\ pending = [t \in Threads |-> <<>>]
    /\ pc = [t \in Threads |-> "idle"]
    /\ series = [t \in Threads |-> <<>>]
    /\ anomalies = [t \in Threads |-> <<>>]
    /\ result = [t \in Threads |-> NotReturned]
    /\ logs = <<>>

\* banking_app as imported: accounts_db = {}, transactions_log = [], and no
\* request being handled.
NoBank ==
    /\ accounts_db = <<>>
    /\ transactions_log = <<>>
    /\ frame = [t \in Threads |-> <<>>]

NoSession == NoAnalysis /\ NoBank

Call(op, arg, tsGiven, res) == [op |-> op, arg |-> arg, ts |-> tsGiven, res |-> res]

NoCall == Call("none", 0, FALSE, Ok(<<>>))

Init ==
    /\ values \in SeriesInputs
    /\ clock = 0
    /\ ret = NoCall
    /\ txn_batch = <<>>
    /\ raw_line = <<>>
    /\ NoSession

\* Time passes between calls.
Tick ==
    /\ clock < MaxClock
    /\ clock' = clock + 1
    /\ UNCHANGED <<sessionVars, inputVars, ret>>

CallZScore ==
    /\ ret' = Call("zscore", 0, FALSE,
                   Ok(ZScoreDetector_detect(values, ZScoreDefaultThreshold)))
    /\ UNCHANGED <<sessionVars, inputVars, clock>>

CallIQR ==
    /\ ret' = Call("iqr", 0, FALSE,
                   Ok(IQRDetector_detect(values, IQRDefaultMultiplier)))
    /\ values' = values_after_sorted(values)
    /\ UNCHANGED <<sessionVars, txn_batch, raw_line, clock>>

CallMovingAverage ==
    \E window_size \in WindowSizes :
        /\ ret' = Call("ma", window_size, FALSE,
                       MovingAverageDetector_detect(values, window_size, MADefaultSigma))
        /\ UNCHANGED <<sessionVars, inputVars, clock>>

CallSeasonality ==
    \E period \in Periods, tsArg \in TimestampArgs(values) :
        /\ ret' = Call("seasonal", period, tsArg.given,
                       SeasonalityDetector_detect(values, tsArg, period, clock))
        /\ UNCHANGED <<sessionVars, inputVars, clock>>

CallTrendChange ==
    \E window \in BehaviorWindows :
        /\ ret' = Call("trend", window, FALSE,
                       BehaviorAnalyzer_detect_trend_change(values, window))
        /\ UNCHANGED <<sessionVars, inputVars, clock>>

\* The call record of detect_level_shift carries the threshold passed.
LevelCall(window, threshold, res) ==
    [op |-> "level", arg |-> window, ts |-> FALSE, res |-> res,
     threshold |-> threshold]

CallLevelShift ==
    \E window \in BehaviorWindows, threshold \in LevelThresholds :
        /\ ret' = LevelCall(window, threshold,
                       BehaviorAnalyzer_detect_level_shift(values, window, threshold))
        /\ UNCHANGED <<sessionVars, inputVars, clock>>

CallEngine ==
    \E tsArg \in TimestampArgs(values) :
        /\ ret' = Call("engine", 0, tsArg.given,
                       Ok(detect_metric_anomalies(MetricName, values, tsArg, clock)))
        /\ UNCHANGED <<sessionVars, inputVars, clock>>

Next ==
    \/ Tick
    \/ CallZScore
    \/ CallIQR
    \/ CallMovingAverage
    \/ CallSeasonality
    \/ CallTrendChange
    \/ CallLevelShift
    \/ CallEngine

Spec == Init /\ [][Next]_vars

-----------------------------------------------------------------------------
(* The transaction calls                                                   *)

TxnInit ==
    /\ values = ExampleAmounts
    /\ clock = 0
    /\ ret = NoCall
    /\ txn_batch \in TxnInputs
    /\ raw_line = <<>>
    /\ NoSession

CallTransactionAnomalies ==
    /\ ret' = Call("large", 0, FALSE, detect_transaction_anomalies(txn_batch, clock))
    /\ UNCHANGED <<sessionVars, inputVars, clock>>

CallFraudPatterns ==
    /\ ret' = Call("fraud", 0, FALSE, Ok(detect_fraud_patterns(txn_batch)))
    /\ txn_batch' = transactions_after_sorted(txn_batch)
    /\ UNCHANGED <<sessionVars, values, raw_line, clock>>

FraudInit ==
    /\ values = <<>>
    /\ clock = 0
    /\ ret = NoCall
    /\ txn_batch \in FraudBatches
    /\ raw_line = <<>>
    /\ NoSession

FraudNext == CallFraudPatterns

FraudSpec == FraudInit /\ [][FraudNext]_vars

\* The metric names a caller may pass: any names, the string 'transactions'
\* among them.
MetricNameSets == SUBSET {MetricName, "transactions"}

\* The mapping of the given names to series: the series under MetricName, and
\* the same readings latest first under any other name.
MetricsData(names) ==
    [name \in names |-> IF name = MetricName THEN values ELSE Reverse(values)]

\* detect_all_anomalies(metrics_data, txn_batch)
CallDetectAll ==
    \E names \in MetricNameSets :
        /\ ret' = Call("all", MetricsData(names), FALSE,
                       detect_all_anomalies(MetricsData(names), txn_batch, clock))
        /\ UNCHANGED <<sessionVars, inputVars, clock>>

TxnNext ==
    \/ Tick
    \/ CallTransactionAnomalies
    \/ CallFraudPatterns
    \/ CallDetectAll

TxnSpec == TxnInit /\ [][TxnNext]_vars

-----------------------------------------------------------------------------
(* Series calls and transaction calls on one set of caller-owned inputs    *)

\* Five records 20 s apart or 600 s apart, in time order or latest first.
OrderedBatches ==
    UNION {{GapBatch(<<g, g, g, g>>), Reverse(GapBatch(<<g, g, g, g>>))} : g \in {20, 600}}

FrameInit ==
    /\ values \in NamedInputs
    /\ txn_batch \in OrderedBatches \cup {AmountBatch(5000, FALSE, 0, "missing")}
    /\ raw_line = <<>>
    /\ NoSession
    /\ clock = 0
    /\ ret = NoCall

FrameNext ==
    \/ Tick
    \/ CallZScore
    \/ CallIQR
    \/ CallMovingAverage
    \/ CallSeasonality
    \/ CallTrendChange
    \/ CallLevelShift
    \/ CallEngine
    \/ CallTransactionAnomalies
    \/ CallFraudPatterns
    \/ CallDetectAll

FrameSpec == FrameInit /\ [][FrameNext]_vars

-----------------------------------------------------------------------------
(* LogEntry (log_analyzer.py)                                              *)
(*                                                                         *)
(* A raw line is a sequence of tokens [kind, text]: the pieces the pattern *)
(*   <date time>,<digits> - <[\w_.]+> - <\w+> - <rest of the line>         *)
(* tells apart.  kind is "date" (text of the date-time shape), "comma",    *)
(* "digits" (\d+), "sep" (" - "), "word" (\w+ with a letter), "dotted"     *)
(* ([\w_.]+ with a dot), "json" (a {...} span that is a JSON object),      *)
(* "badjson" (a {...} span that is not JSON) or "text" (anything else).    *)
(* The empty sequence is the empty string.                                 *)

Tok(kind, text) == [kind |-> kind, text |-> text]

\* re.match(pattern, raw_log): the pattern is anchored at the start only,
\* and its last group takes whatever follows the third " - ".
PatternMatches(raw_log) ==
    /\ Len(raw_log) >= 8
    /\ raw_log[1].kind = "date"
    /\ raw_log[2].kind = "comma"
    /\ raw_log[3].kind = "digits"
    /\ raw_log[4].kind = "sep"
    /\ raw_log[5].kind \in {"word", "dotted", "digits"}
    /\ raw_log[6].kind = "sep"
    /\ raw_log[7].kind \in {"word", "digits"}
    /\ raw_log[8].kind = "sep"

\* An optional datetime: None, or an instant.
NoneTime == [some |-> FALSE, at |-> <<>>]

SomeTime(at) == [some |-> TRUE, at |-> at]

\* datetime.strptime(f"{timestamp_str}.{ms}", "%Y-%m-%d %H:%M:%S.%f"): the
\* date-time must name a real calendar instant and %f takes one to six
\* digits; the result is written here as the text it was read from.
strptime(date, ms) ==
    IF ms.text # "123" THEN Raise("ValueError")
    ELSE CASE date.text = "2024-01-19 10:30:45" -> Ok("2024-01-19 10:30:45.123000")
           [] date.text = "2024-01-18 13:30:45" -> Ok("2024-01-18 13:30:45.123000")
           [] date.text = "2024-01-18 09:30:45" -> Ok("2024-01-18 09:30:45.123000")
           [] OTHER -> Raise("ValueError")

\* str.upper on the level words of the model.
upper(word) ==
    CASE word = "info"    -> "INFO"
      [] word = "error"   -> "ERROR"
      [] word = "Warning" -> "WARNING"
      [] word = "trace"   -> "TRACE"
      [] OTHER            -> word

\* The {...} fragments of a message.
Braced(message) == SelectSeq(message, LAMBDA tok : tok.kind \in {"json", "badjson"})

\* json.loads(message[message.find('{') : message.rfind('}') + 1]) when the
\* message holds both braces: the span from the first '{' to the last '}' is
\* JSON only when it is one well-formed object; a JSONDecodeError leaves the
\* metadata empty.  The metadata of a json token is its text.
Metadata(message) ==
    LET braced == Braced(message)
    IN  IF Len(braced) = 1 /\ braced[1].kind = "json" THEN <<braced[1].text>>
        ELSE <<>>

\* LogEntry.__init__ followed by LogEntry.parse.
LogEntry(raw_log, now) ==
    IF PatternMatches(raw_log)
    THEN LET stamp   == strptime(raw_log[1], raw_log[3])
             message == SubSeq(raw_log, 9, Len(raw_log))
         IN  [raw_log   |-> raw_log,
              timestamp |-> IF stamp.raised THEN SomeTime(<<"now", now>>)
                            ELSE SomeTime(<<stamp.out, 0>>),
              component |-> raw_log[5].text,
              level     |-> upper(raw_log[7].text),
              message   |-> message,
              metadata  |-> Metadata(message)]
    ELSE [raw_log   |-> raw_log,
          timestamp |-> NoneTime,
          level     |-> "UNKNOWN",
          component |-> "unknown",
          message   |-> <<>>,
          metadata  |-> <<>>]

-----------------------------------------------------------------------------
(* Log lines                                                               *)

MaxTokens == 2       \* every token sequence up to this length is a raw line

DateToks == {Tok("date", "2024-01-19 10:30:45"), Tok("date", "2024-13-45 10:30:45")}

MsToks == {Tok("digits", "123"), Tok("digits", "1234567")}

ComponentToks == {Tok("word", "banking_app"), Tok("dotted", "app.db")}

LevelToks == {Tok("word", "INFO"), Tok("word", "error"), Tok("word", "Warning"),
              Tok("word", "trace")}

Messages ==
    { <<>>,
      <<Tok("text", "Operation complete")>>,
      <<Tok("text", "Transfer failed: "), Tok("json", "{\"error_type\": \"ValueError\"}")>>,
      <<Tok("text", "Transfer failed: "), Tok("badjson", "{not json}")>>,
      <<Tok("json", "{\"a\": 1}"), Tok("text", " and "), Tok("json", "{\"b\": 2}")>> }

\* Lines of the documented format.
FormatLine(date, ms, component, level, message) ==
    <<date, Tok("comma", ","), ms, Tok("sep", " - "), component, Tok("sep", " - "),
      level, Tok("sep", " - ")>> \o message

FormatLines ==
    {FormatLine(date, ms, component, level, message) :
        date \in DateToks, ms \in MsToks, component \in ComponentToks,
        level \in LevelToks, message \in Messages}

\* A documented line with one of its eight leading tokens cut out.
RECURSIVE Without(_, _)
Without(q, k) ==
    IF k = 1 THEN Tail(q) ELSE <<Head(q)>> \o Without(Tail(q), k - 1)

BrokenLines ==
    {Without(FormatLine(Tok("date", "2024-01-19 10:30:45"), Tok("digits", "123"),
                        component, level, message), k) :
        component \in ComponentToks, level \in LevelToks, message \in Messages,
        k \in 1..8}

\* Short lines of any tokens.
LooseToks ==
    {Tok("date", "2024-01-19 10:30:45"), Tok("comma", ","), Tok("digits", "123"),
     Tok("sep", " - "), Tok("word", "ERROR"), Tok("text", "Traceback (most recent call last):")}

LogLines == FormatLines \cup BrokenLines \cup SeqsUpTo(LooseToks, MaxTokens)

-----------------------------------------------------------------------------
(* The log calls                                                           *)

LogInit ==
    /\ values = <<>>
    /\ txn_batch = <<>>
    /\ raw_line \in LogLines
    /\ NoSession
    /\ clock = 0
    /\ ret = NoCall

CallLogEntry ==
    /\ ret' = Call("parse", 0, FALSE, Ok(LogEntry(raw_line, clock)))
    /\ UNCHANGED <<sessionVars, inputVars, clock>>

LogNext ==
    \/ Tick
    \/ CallLogEntry

LogSpec == LogInit /\ [][LogNext]_vars

-----------------------------------------------------------------------------
(* Properties of the detectors and the engine                              *)

IsConstant(s) == \A k \in 1..Len(s) : s[k] = s[1]

IndexList(q) == [k \in 1..Len(q) |-> q[k].index]

Ascending(q) == \A k \in 1..Len(q) - 1 : q[k] < q[k + 1]

\* C1: two successive runs of detect_metric_anomalies on the unchanged series,
\* with the same timestamps argument, return identical anomaly lists.
C1_EngineRunsIdentical ==
    [][(ret.op = "engine" /\ ret'.op = "engine" /\ ret'.ts = ret.ts)
          => ret'.res = ret.res]_vars

\* C2 as stated: on [10,10,10,10,100] with threshold 2.5 the z-score detector
\* flags index 4 (the value 100) and no other index.
C2_SpikeFlagged ==
    (ret.op = "zscore" /\ values = <<10, 10, 10, 10, 100>>)
        => IndexList(ret.res.out) = <<4>>

\* C2 amended: on [10,10,10,10,100] with threshold 2.5 the z-score detector
\* flags no index at all (the z-score of 100 is 72 / sqrt(1620), about 1.79).
C2_SpikeNotFlagged ==
    (ret.op = "zscore" /\ values = <<10, 10, 10, 10, 100>>)
        => ret.res = Ok(<<>>)

C2_Witness == ret.op = "zscore" /\ values = <<10, 10, 10, 10, 100>>

\* C3: on a constant series of any length the z-score, IQR, moving-average
\* and seasonal detectors and the engine all return the empty list.
C3_ConstantSeriesEmpty ==
    (IsConstant(values) /\ ret.op \in {"zscore", "iqr", "ma", "seasonal", "engine"})
        => ret.res = Ok(<<>>)

\* The inputs C5 names for a call: the empty series, a single value, or a
\* series of exactly the detector's minimum length.
C5_BoundaryInput ==
    \/ Len(values) <= 1
    \/ ret.op = "zscore" /\ Len(values) = 2
    \/ ret.op = "iqr" /\ Len(values) = 4
    \/ ret.op = "ma" /\ Len(values) = ret.arg
    \/ ret.op = "seasonal" /\ Len(values) = 2 * ret.arg
    \/ ret.op \in {"trend", "level"} /\ Len(values) = 2 * ret.arg
    \/ ret.op = "engine" /\ Len(values) = EngineMinPoints

\* C5: on those inputs no detector, analyzer or engine call raises.
C5_BoundaryNeverRaises ==
    (ret.op # "none" /\ C5_BoundaryInput) => ~ret.res.raised

\* C6: for three or more points the engine's list is the z-score findings,
\* then the IQR findings, then the moving-average findings, each in ascending
\* index order, nothing merged and nothing seasonal.
C6_EngineConcatenates ==
    (ret.op = "engine" /\ Len(values) >= EngineMinPoints) =>
        LET out == ret.res.out
            z   == IndexList(ZScoreDetector_detect(values, ZScoreDefaultThreshold))
            q   == IndexList(IQRDetector_detect(values, IQRDefaultMultiplier))
            m   == IndexList(MovingAverageDetector_detect(values, MADefaultWindow,
                                                          MADefaultSigma).out)
        IN  /\ Len(out) = Len(z) + Len(q) + Len(m)
            /\ [k \in 1..Len(out) |-> out[k].context.index] = z \o q \o m
            /\ \A k \in 1..Len(out) :
                  /\ out[k].anomaly_type # "seasonal"
                  /\ out[k].description[1] =
                        IF k <= Len(z) THEN "Z-score anomaly"
                        ELSE IF k <= Len(z) + Len(q) THEN "IQR-based outlier"
                        ELSE "Moving average deviation"
            /\ Ascending(z) /\ Ascending(q) /\ Ascending(m)

\* One index reported three times, once by each detector.
C6_Witness ==
    /\ ret.op = "engine"
    /\ Len(ret.res.out) = 3
    /\ \A k \in 1..3 : ret.res.out[k].context.index = 9
    /\ ret.res.out[1].description[1] = "Z-score anomaly"
    /\ ret.res.out[2].description[1] = "IQR-based outlier"
    /\ ret.res.out[3].description[1] = "Moving average deviation"

\* C10: the IQR detector returns nothing for fewer than 4 values; otherwise
\* it reports, in index order, exactly the indices whose value lies below
\* Q1 - m*(Q3-Q1) (low_outlier) or above Q3 + m*(Q3-Q1) (high_outlier), the
\* quartiles taken of the sorted values; [1..7,100] gives only index 7, high.
C10_IQRRule ==
    ret.op = "iqr" =>
        LET out == ret.res.out
            m   == IQRDefaultMultiplier
            lo  == IQRLower(Sorted(values), m)
            hi  == IQRUpper(Sorted(values), m)
            Low(i)  == 4 * m[2] * values[i + 1] < lo
            High(i) == 4 * m[2] * values[i + 1] > hi
        IN  /\ ~ret.res.raised
            /\ Len(values) < 4 => out = <<>>
            /\ Len(values) >= 4 =>
                  /\ Ascending(IndexList(out))
                  /\ \A i \in 0..Len(values) - 1 :
                        /\ Low(i) <=> [index |-> i, outlier_type |-> "low_outlier"]
                                         \in {out[k] : k \in 1..Len(out)}
                        /\ High(i) <=> [index |-> i, outlier_type |-> "high_outlier"]
                                         \in {out[k] : k \in 1..Len(out)}
                  /\ \A k \in 1..Len(out) : Low(out[k].index) \/ High(out[k].index)
            /\ values = <<1, 2, 3, 4, 5, 6, 7, 100>>
                  => out = <<[index |-> 7, outlier_type |-> "high_outlier"]>>
            /\ values = <<1, 2, 3>> => out = <<>>

\* A low outlier in the middle of a series is reported.
C10_Witness ==
    /\ ret.op = "iqr"
    /\ Len(values) = 8
    /\ ret.res.out = <<[index |-> 3, outlier_type |-> "low_outlier"]>>

-----------------------------------------------------------------------------
(* Properties of the transaction detectors                                 *)

\* The record's timestamp string parses (a missing one does not: it is '').
Parsable(txn) == "timestamp" \in DOMAIN txn /\ txn.timestamp.form = "iso"

\* C4: on a batch holding a record whose timestamp is missing or does not
\* parse, detect_transaction_anomalies, detect_fraud_patterns and
\* detect_all_anomalies return without raising.
C4_SpoiledTimestampNeverRaises ==
    (/\ ret.op \in {"large", "fraud", "all"}
     /\ \E k \in 1..Len(txn_batch) : ~Parsable(txn_batch[k]))
        => ~ret.res.raised

\* The instants of a batch whose timestamps all parse, in ascending order.
SortedInstants(batch) == Sorted([k \in 1..Len(batch) |-> batch[k].timestamp.t])

\* Five records of one source account, every timestamp well-formed.
FiveFromOneAccount(batch) ==
    /\ Len(batch) = 5
    /\ \A k \in 1..5 : Parsable(batch[k]) /\ AccountOf(batch[k]) = AccountOf(batch[1])

C9_SignedZAbove3(amount, amounts) ==
    /\ SSD(amounts) > 0
    /\ Len(amounts) * amount > Sum(amounts)
    /\ FracGT((Len(amounts) * amount - Sum(amounts)) * (Len(amounts) * amount - Sum(amounts)),
              SSD(amounts), 9 * Len(amounts), Len(amounts) - 1)

-----------------------------------------------------------------------------
(* Properties of the log parser                                            *)

\* C7: for a raw line that does not match the line format the LogEntry has
\* level UNKNOWN, component "unknown", the full raw line as its message,
\* empty metadata and no timestamp.
C7_UnmatchedLineEntry ==
    (ret.op = "parse" /\ ~PatternMatches(raw_line)) =>
        /\ ret.res.out.level = "UNKNOWN"
        /\ ret.res.out.component = "unknown"
        /\ ret.res.out.message = raw_line
        /\ ret.res.out.metadata = <<>>
        /\ ret.res.out.timestamp = NoneTime

-----------------------------------------------------------------------------
(* Properties of the moving-average detector                               *)

\* The window_size values before index i (0-based), none of them values[i].
C11_Window(i, window_size) == [k \in 1..window_size |-> values[i - window_size + k]]

\* The window before index i has positive standard deviation and values[i]
\* lies more than sigma standard deviations from the window's mean.
C11_Deviates(i, window_size, sigma) ==
    LET w == C11_Window(i, window_size)
        d == Abs(window_size * values[i + 1] - Sum(w))
    IN  /\ SSD(w) > 0
        /\ d > 0
        /\ FracGT(d, SSD(w), sigma[1] * sigma[1] * window_size,
                  sigma[2] * sigma[2] * (window_size - 1) * d)

\* C11: the moving-average detector reports, in index order, exactly the
\* indices i >= window_size whose preceding window of window_size values has
\* positive standard deviation and whose value deviates from that window's
\* mean by more than sigma standard deviations; no index below window_size
\* is reported; window 5, sigma 2.0 on the daily transactions reports
\* index 10 (the value 200).  A window of one point has no standard
\* deviation: that call reports nothing (it raises, see C3).
C11_MovingAverageRule ==
    ret.op = "ma" =>
        LET window_size == ret.arg
            found == IndexList(ret.res.out)
        IN  /\ ret.res.raised => window_size < 2 /\ ret.res.out = <<>>
            /\ ~ret.res.raised =>
                  /\ Ascending(found)
                  /\ \A k \in 1..Len(found) : found[k] >= window_size
                  /\ \A i \in window_size..Len(values) - 1 :
                        (i \in {found[k] : k \in 1..Len(found)})
                            <=> C11_Deviates(i, window_size, MADefaultSigma)
                  /\ (values = DailyTransactions /\ window_size = 5)
                        => 10 \in {found[k] : k \in 1..Len(found)}

\* The daily transactions under a window of five: indices 5, 6 and 10.
C11_Witness ==
    /\ ret.op = "ma"
    /\ ret.arg = 5
    /\ values = DailyTransactions
    /\ IndexList(ret.res.out) = <<5, 6, 10>>

-----------------------------------------------------------------------------
(* Properties of the engine's anomaly records                              *)

\* Two exact rationals <<num, den>> are the same number.
SameNumber(a, b) == a[1] * b[2] = b[1] * a[2]

\* C12: every anomaly of detect_metric_anomalies carries its detector's
\* baseline as expected_value: the series mean for a z-score anomaly, the
\* series median for an IQR anomaly, and for a moving-average anomaly the mean
\* of the window of MADefaultWindow values before the flagged index.
C12_ExpectedValueIsBaseline ==
    ret.op = "engine" =>
        \A k \in 1..Len(ret.res.out) :
            LET a == ret.res.out[k]
                w == C11_Window(a.context.index, MADefaultWindow)
            IN  /\ a.description[1] = "Z-score anomaly"
                     => SameNumber(a.expected_value, <<Sum(values), Len(values)>>)
                /\ a.description[1] = "IQR-based outlier"
                     => SameNumber(a.expected_value, Median(values))
                /\ a.description[1] = "Moving average deviation"
                     => SameNumber(a.expected_value, <<Sum(w), MADefaultWindow>>)

-----------------------------------------------------------------------------
(* Frame                                                                   *)

\* C13: no call of a detector, analyzer or engine entry point changes the
\* caller's value sequence or transaction list: both hold the same elements
\* in the same order after the call as before it.
C13_InputsUnchanged ==
    [][values' = values /\ txn_batch' = txn_batch]_vars

\* The IQR detector has run on a series that is not in ascending order.
C13_Witness ==
    /\ ret.op = "iqr"
    /\ values = DailyTransactions
    /\ values # Sorted(values)

-----------------------------------------------------------------------------
(* Properties of detect_all_anomalies                                      *)

\* An anomaly list without the instants its records were stamped with.
Findings(found) ==
    [k \in 1..Len(found) |-> [found[k] EXCEPT !.timestamp = 0]]

\* C14: when detect_all_anomalies returns, every metric name of the input
\* mapping is a key of the result and maps to the findings that
\* detect_metric_anomalies gives for that metric's series, whatever the
\* names and whether or not a batch is passed; the only other key is
\* 'transactions', present only when the batch is not empty.
C14_DetectAllMapping ==
    (ret.op = "all" /\ ~ret.res.raised) =>
        LET metrics_data == ret.arg
            out == ret.res.out
        IN  /\ DOMAIN metrics_data \subseteq DOMAIN out
            /\ \A name \in DOMAIN metrics_data :
                  Findings(out[name]) =
                      Findings(detect_metric_anomalies(name, metrics_data[name],
                                                       NoTimestamps, 0))
            /\ DOMAIN out \ DOMAIN metrics_data \subseteq {"transactions"}
            /\ "transactions" \in DOMAIN out \ DOMAIN metrics_data => txn_batch # <<>>

-----------------------------------------------------------------------------
(* Properties of every Anomaly record                                      *)

AnomalyTypes == {"statistical", "behavioral", "seasonal", "contextual"}

Severities == {"low", "medium", "high", "critical"}

\* Every Anomaly a call has returned: the list itself, or for
\* detect_all_anomalies the lists under all keys of the result.
AnomaliesReturned ==
    IF ret.res.raised \/ ret.op \notin {"seasonal", "engine", "large", "fraud", "all"}
    THEN {}
    ELSE IF ret.op = "all"
    THEN UNION {{ret.res.out[key][k] : k \in 1..Len(ret.res.out[key])} :
                   key \in DOMAIN ret.res.out}
    ELSE {ret.res.out[k] : k \in 1..Len(ret.res.out)}

\* The value x lies more than 3.5 sample standard deviations from the mean of
\* the sample: |n*x - sum|^2 * (n - 1) * 4 > 49 * n * ssd.
C15_ZAbove35(x, sample) ==
    LET d == Abs(Len(sample) * x - Sum(sample))
    IN  /\ d > 0
        /\ FracGT(d, SSD(sample), 49 * Len(sample), 4 * (Len(sample) - 1) * d)

\* C15: every Anomaly returned by the seasonal detector, the engine, the
\* transaction detectors or detect_all_anomalies has anomaly_type in
\* AnomalyTypes and severity in Severities; a z-score anomaly of the engine
\* is 'high' exactly when its z-score exceeds 3.5 and 'medium' otherwise.
C15_ClosedEnumerations ==
    /\ \A a \in AnomaliesReturned :
          a.anomaly_type \in AnomalyTypes /\ a.severity \in Severities
    /\ ret.op = "engine" =>
          \A k \in 1..Len(ret.res.out) :
              LET a == ret.res.out[k]
              IN  a.description[1] = "Z-score anomaly" =>
                      a.severity = IF C15_ZAbove35(a.value, values)
                                   THEN "high" ELSE "medium"

\* The engine has rated a z-score anomaly high.
C15_Witness ==
    /\ ret.op = "engine"
    /\ \E k \in 1..Len(ret.res.out) :
          /\ ret.res.out[k].description[1] = "Z-score anomaly"
          /\ ret.res.out[k].severity = "high"

-----------------------------------------------------------------------------
(* Properties of the parsed level                                          *)

\* The standard logging levels.
StandardLevels == {"DEBUG", "INFO", "WARNING", "ERROR", "CRITICAL"}

\* C16: for every raw line the level of the LogEntry is UNKNOWN or one of the
\* standard logging levels, and for a line of the format it is the level
\* token upper-cased.
C16_LevelInFixedSet ==
    ret.op = "parse" =>
        /\ ret.res.out.level \in StandardLevels \cup {"UNKNOWN"}
        /\ PatternMatches(raw_line) => ret.res.out.level = upper(raw_line[7].text)

-----------------------------------------------------------------------------
(* LogAnalyzer.load_logs (log_analyzer.py)                                 *)
(*                                                                         *)
(* A line handed to load_logs may carry whitespace: a "space" token is a   *)
(* run of whitespace characters (a blank, or the newline readlines() keeps *)
(* at the end of each line).                                               *)

\* str.strip() on the left: leading whitespace goes.  (No line of the model
\* starts with a separator.)
RECURSIVE lstrip(_)
lstrip(line) ==
    IF line # <<>> /\ Head(line).kind = "space" THEN lstrip(Tail(line)) ELSE line

\* str.strip() on the right: trailing whitespace goes, and a line that ends
\* with the separator " - " loses the separator's last blank, which leaves
\* the text " -".
RECURSIVE rstrip(_)
rstrip(line) ==
    IF line = <<>> THEN <<>>
    ELSE LET last  == line[Len(line)]
             front == SubSeq(line, 1, Len(line) - 1)
         IN  IF last.kind = "space" THEN rstrip(front)
             ELSE IF last.kind = "sep" THEN Append(front, Tok("text", " -"))
             ELSE line

strip(line) == rstrip(lstrip(line))

\* The loop body with the test "if line:" in place of "if line.strip():":
\* a line of whitespace is parsed and stored like any other.
load_line_unstripped_test(entry_list, line, now) ==
    IF line # <<>> THEN Append(entry_list, LogEntry(strip(line), now))
    ELSE entry_list

\* The body of the loop of load_logs for one line, on the list self.entries:
\* a line that is not blank is stripped, parsed and appended.
load_line(entry_list, line, now) ==
    IF strip(line) # <<>> THEN Append(entry_list, LogEntry(strip(line), now))
    ELSE entry_list

\* load_logs: the loop over log_lines, in order.
RECURSIVE load_logs(_, _, _)
load_logs(entry_list, log_lines, now) ==
    IF log_lines = <<>> THEN entry_list
    ELSE load_logs(load_line(entry_list, Head(log_lines), now), Tail(log_lines), now)

-----------------------------------------------------------------------------
(* Lines to load                                                           *)

MaxBatch == 2        \* one load_logs call takes up to this many lines
MaxSupplied == 3     \* an analyzer is handed up to this many lines in all

Newline == Tok("space", "\n")

GoodLine ==
    FormatLine(Tok("date", "2024-01-19 10:30:45"), Tok("digits", "123"),
               Tok("word", "banking_app"), Tok("word", "ERROR"),
               <<Tok("text", "Transfer failed: "),
                 Tok("json", "{\"error_type\": \"ValueError\"}")>>)

\* A formatted line with an empty message: stripping it cuts into its last
\* separator.
BareLine ==
    FormatLine(Tok("date", "2024-01-19 10:30:45"), Tok("digits", "123"),
               Tok("word", "banking_app"), Tok("word", "INFO"), <<>>)

\* A formatted line with an impossible date and malformed metadata.
MalformedLine ==
    FormatLine(Tok("date", "2024-13-45 10:30:45"), Tok("digits", "123"),
               Tok("dotted", "app.db"), Tok("word", "error"),
               <<Tok("text", "Transfer failed: "), Tok("badjson", "{not json}")>>)

LoadLines ==
    { <<>>,
      <<Newline>>,
      Append(GoodLine, Newline),
      Append(BareLine, Newline),
      <<Tok("text", "Traceback (most recent call last):"), Newline>>,
      <<Tok("space", "  ")>> \o MalformedLine }

-----------------------------------------------------------------------------
(* load_logs calls on one analyzer, one after the other                    *)

LoadInit ==
    /\ values = <<>>
    /\ txn_batch = <<>>
    /\ raw_line = <<>>
    /\ NoSession
    /\ clock = 0
    /\ ret = NoCall

\* analyzer.load_logs(log_lines) on the analyzer of thread A.
CallLoadLogs ==
    \E log_lines \in SeqsUpTo(LoadLines, MaxBatch) :
        /\ Len(supplied["A"]) + Len(log_lines) <= MaxSupplied
        /\ entries' = [entries EXCEPT !["A"] = load_logs(@, log_lines, clock)]
        /\ supplied' = [supplied EXCEPT !["A"] = @ \o log_lines]
        /\ ret' = Call("load", log_lines, FALSE, Ok(<<>>))
        /\ UNCHANGED <<inputVars, logs, bankVars, clock, pending, pc, series, anomalies, result>>

LoadNext ==
    \/ Tick
    \/ CallLoadLogs

LoadSpec == LoadInit /\ [][LoadNext]_vars

-----------------------------------------------------------------------------
(* Properties of load_logs                                                 *)

\* The lines that hold something other than whitespace, in order.
NonBlank(lines) ==
    SelectSeq(lines, LAMBDA line : \E k \in 1..Len(line) : line[k].kind # "space")

\* C17: after any sequence of load_logs calls on one analyzer, entries holds
\* one LogEntry per non-blank line supplied, in the order supplied across
\* the calls, each made from its line without the surrounding whitespace;
\* blank lines add nothing and no malformed line stops a later one.
C17_OneEntryPerNonBlankLine ==
    LET kept == NonBlank(supplied["A"])
    IN  /\ Len(entries["A"]) = Len(kept)
        /\ \A k \in 1..Len(kept) : entries["A"][k].raw_log = strip(kept[k])

\* Two calls have supplied a malformed line, a blank line and a good line:
\* two entries, the unmatched one first.
C17_Witness ==
    /\ ret.op = "load"
    /\ Len(ret.arg) < Len(supplied["A"])
    /\ Len(supplied["A"]) = 3
    /\ Len(entries["A"]) = 2
    /\ entries["A"][1].timestamp = SomeTime(<<"now", 0>>)
    /\ entries["A"][2].level = "ERROR"
    /\ entries["A"][2].metadata # <<>>

-----------------------------------------------------------------------------
(* Two threads: engine calls through one shared engine, and each thread's  *)
(* load_logs on its own LogAnalyzer.                                       *)
(*                                                                         *)
(* detect_metric_anomalies keeps its findings in the local `anomalies`     *)
(* (line 376); the engine's attributes are the detectors, whose fields are *)
(* set in __init__ and only read afterwards.  A call is cut at the three   *)
(* detector blocks and load_logs at each line: between the cuts a thread   *)
(* touches only its own locals.                                            *)

\* All engine calls keeping their findings in one list on the shared engine.
frame_shared(t) == "A"

\* The list a call of thread t appends to: the local of its own frame.
frame_of(t) == t

\* The series the threads pass.
ConcSeries == {LongSpike, ExampleAmounts}

\* The lines each thread loads into its own analyzer.
ConcLines ==
    [t \in Threads |->
        IF t = "A"
        THEN <<Append(GoodLine, Newline), <<Newline>>, Append(BareLine, Newline)>>
        ELSE <<<<Tok("text", "Traceback (most recent call last):"), Newline>>,
               <<Tok("space", "  ")>> \o MalformedLine>>]

ConcInit ==
    /\ values = <<>>
    /\ txn_batch = <<>>
    /\ raw_line = <<>>
    /\ NoSession
    /\ clock = 0
    /\ ret = NoCall

\* Lines 376-379: anomalies = []; a series of fewer than 3 points returns it.
BeginDetect(t) ==
    /\ pc[t] = "idle"
    /\ ~result[t].done
    /\ \E s \in ConcSeries :
          /\ series' = [series EXCEPT ![t] = s]
          /\ pc' = [pc EXCEPT ![t] = IF Len(s) < EngineMinPoints THEN "return" ELSE "zscore"]
    /\ anomalies' = [anomalies EXCEPT ![frame_of(t)] = <<>>]
    /\ UNCHANGED <<inputVars, logs, bankVars, clock, ret, entries, supplied, pending, result>>

\* Lines 381-393.
DetectZScore(t) ==
    /\ pc[t] = "zscore"
    /\ anomalies' = [anomalies EXCEPT ![frame_of(t)] =
                        @ \o EngineZScorePart(MetricName, series[t], NoTimestamps, clock)]
    /\ pc' = [pc EXCEPT ![t] = "iqr"]
    /\ UNCHANGED <<inputVars, logs, bankVars, clock, ret, entries, supplied, pending, series, result>>

\* Lines 395-407.
DetectIQR(t) ==
    /\ pc[t] = "iqr"
    /\ anomalies' = [anomalies EXCEPT ![frame_of(t)] =
                        @ \o EngineIQRPart(MetricName, series[t], NoTimestamps, clock)]
    /\ pc' = [pc EXCEPT ![t] = "ma"]
    /\ UNCHANGED <<inputVars, logs, bankVars, clock, ret, entries, supplied, pending, series, result>>

\* Lines 409-421.
DetectMovingAverage(t) ==
    /\ pc[t] = "ma"
    /\ anomalies' = [anomalies EXCEPT ![frame_of(t)] =
                        @ \o EngineMAPart(MetricName, series[t], NoTimestamps, clock)]
    /\ pc' = [pc EXCEPT ![t] = "return"]
    /\ UNCHANGED <<inputVars, logs, bankVars, clock, ret, entries, supplied, pending, series, result>>

\* Line 423 (or 379): return anomalies.
ReturnDetect(t) ==
    /\ pc[t] = "return"
    /\ result' = [result EXCEPT ![t] = Returned(anomalies[frame_of(t)])]
    /\ pc' = [pc EXCEPT ![t] = "idle"]
    /\ UNCHANGED <<inputVars, logs, bankVars, clock, ret, entries, supplied, pending, series, anomalies>>

\* Thread t calls load_logs of its own analyzer with its lines.
BeginLoad(t) ==
    /\ pc[t] = "idle"
    /\ supplied[t] = <<>>
    /\ supplied' = [supplied EXCEPT ![t] = ConcLines[t]]
    /\ pending' = [pending EXCEPT ![t] = ConcLines[t]]
    /\ pc' = [pc EXCEPT ![t] = "loading"]
    /\ UNCHANGED <<inputVars, logs, bankVars, clock, ret, entries, series, anomalies, result>>

\* One turn of the loop: self.entries of thread t's analyzer takes the line.
LoadOneLine(t) ==
    /\ pc[t] = "loading"
    /\ pending[t] # <<>>
    /\ entries' = [entries EXCEPT ![t] = load_line(@, Head(pending[t]), clock)]
    /\ pending' = [pending EXCEPT ![t] = Tail(@)]
    /\ UNCHANGED <<inputVars, logs, bankVars, clock, ret, supplied, pc, series, anomalies, result>>

EndLoad(t) ==
    /\ pc[t] = "loading"
    /\ pending[t] = <<>>
    /\ pc' = [pc EXCEPT ![t] = "idle"]
    /\ UNCHANGED <<inputVars, logs, bankVars, clock, ret, entries, supplied, pending, series, anomalies, result>>

ConcNext ==
    \/ Tick
    \/ \E t \in Threads : BeginDetect(t)
    \/ \E t \in Threads : DetectZScore(t)
    \/ \E t \in Threads : DetectIQR(t)
    \/ \E t \in Threads : DetectMovingAverage(t)
    \/ \E t \in Threads : ReturnDetect(t)
    \/ \E t \in Threads : BeginLoad(t)
    \/ \E t \in Threads : LoadOneLine(t)
    \/ \E t \in Threads : EndLoad(t)

ConcSpec == ConcInit /\ [][ConcNext]_vars

-----------------------------------------------------------------------------
(* Properties of concurrent calls                                          *)

\* C18: under every interleaving, an engine call that has returned holds the
\* findings the same call gives when run alone, and an analyzer whose load
\* has finished holds one entry per non-blank line of its own thread's
\* lines, in order, and nothing else.
C18_NoInterference ==
    \A t \in Threads :
        /\ result[t].done =>
              Findings(result[t].out) =
                  Findings(detect_metric_anomalies(MetricName, series[t], NoTimestamps, 0))
        /\ (pc[t] = "idle" /\ supplied[t] # <<>>) =>
              LET kept == NonBlank(ConcLines[t])
              IN  /\ Len(entries[t]) = Len(kept)
                  /\ \A k \in 1..Len(kept) : entries[t][k].raw_log = strip(kept[k])

\* Both engine calls are in flight on different series, each with findings
\* already collected in its own list.
C18_Witness ==
    /\ pc["A"] = "return"
    /\ pc["B"] = "ma"
    /\ series["A"] # series["B"]
    /\ anomalies["A"] # <<>>
    /\ anomalies["B"] # <<>>

-----------------------------------------------------------------------------
(* Text as characters                                                      *)
(*                                                                         *)
(* decision_node and PipelineDebugger.parse_logs look for substrings, so   *)
(* their texts are sequences of one-character strings.                     *)

UpperCase ==
    <<"A", "B", "C", "D", "E", "F", "G", "H", "I", "J", "K", "L", "M",
      "N", "O", "P", "Q", "R", "S", "T", "U", "V", "W", "X", "Y", "Z">>

LowerCase ==
    <<"a", "b", "c", "d", "e", "f", "g", "h", "i", "j", "k", "l", "m",
      "n", "o", "p", "q", "r", "s", "t", "u", "v", "w", "x", "y", "z">>

\* str.lower() of one character.
LowerChar(c) ==
    IF \E k \in 1..26 : UpperCase[k] = c
    THEN LowerCase[CHOOSE k \in 1..26 : UpperCase[k] = c]
    ELSE c

\* str.lower()
lower(text) == [k \in 1..Len(text) |-> LowerChar(text[k])]

\* sub in text
Contains(sub, text) ==
    \E i \in 0..Len(text) - Len(sub) : SubSeq(text, i + 1, i + Len(sub)) = sub

-----------------------------------------------------------------------------
(* decision_node (src/Day3/pipeline/ai/decision_node.py)                   *)

TimeoutText == <<"t", "i", "m", "e", "o", "u", "t">>

ConfigurationErrorText ==
    <<"c", "o", "n", "f", "i", "g", "u", "r", "a", "t", "i", "o", "n", " ",
      "e", "r", "r", "o", "r">>

\* decision_node testing for 'configuration error' before 'timeout'.
decision_node_configuration_first(deployment_status, error_logs) ==
    IF deployment_status = "failure"
    THEN IF Contains(ConfigurationErrorText, lower(error_logs)) THEN "rollback"
         ELSE IF Contains(TimeoutText, lower(error_logs)) THEN "retry"
         ELSE "rollback"
    ELSE "success"

decision_node(deployment_status, error_logs) ==
    IF deployment_status = "failure"
    THEN IF Contains(TimeoutText, lower(error_logs)) THEN "retry"
         ELSE IF Contains(ConfigurationErrorText, lower(error_logs)) THEN "rollback"
         ELSE "rollback"
    ELSE "success"

-----------------------------------------------------------------------------
(* Inputs of decision_node                                                 *)

MaxFragments == 2    \* error logs are up to this many fragments, joined

\* "Timeout occurred"
FragTimeout ==
    <<"T", "i", "m", "e", "o", "u", "t", " ", "o", "c", "c", "u", "r", "r", "e", "d">>

\* "TIME"
FragTIME ==
    <<"T", "I", "M", "E">>

\* "OUT"
FragOUT ==
    <<"O", "U", "T">>

\* "Configuration error"
FragConfig ==
    <<"C", "o", "n", "f", "i", "g", "u", "r", "a", "t", "i", "o", "n", " ", "e", "r", "r", "o", "r">>

\* "Unknown error"
FragUnknown ==
    <<"U", "n", "k", "n", "o", "w", "n", " ", "e", "r", "r", "o", "r">>

\* " "
FragBlank ==
    <<" ">>

Fragments == {FragTimeout, FragTIME, FragOUT, FragConfig, FragUnknown, FragBlank}

\* The fragments of a sequence joined into one text.
RECURSIVE Join(_)
Join(parts) == IF parts = <<>> THEN <<>> ELSE Head(parts) \o Join(Tail(parts))

ErrorLogs == {Join(parts) : parts \in SeqsUpTo(Fragments, MaxFragments)}

DeploymentStatuses == {"failure", "success", "Failure", "failed", ""}

DecisionInit ==
    /\ values = <<>>
    /\ txn_batch = <<>>
    /\ raw_line = <<>>
    /\ NoSession
    /\ clock = 0
    /\ ret = NoCall

CallDecisionNode ==
    \E deployment_status \in DeploymentStatuses, error_logs \in ErrorLogs :
        /\ ret' = Call("decision",
                       [deployment_status |-> deployment_status, error_logs |-> error_logs],
                       FALSE, Ok(decision_node(deployment_status, error_logs)))
        /\ UNCHANGED <<inputVars, clock, sessionVars>>

DecisionNext == CallDecisionNode

DecisionSpec == DecisionInit /\ [][DecisionNext]_vars

-----------------------------------------------------------------------------
(* Properties of decision_node                                             *)

\* Some seven consecutive characters of the text spell "timeout", whatever
\* their case.
C19_MentionsTimeout(text) ==
    \E i \in 0..Len(text) - 7 :
        \A k \in 1..7 : LowerChar(text[i + k]) = TimeoutText[k]

\* C19: decision_node returns 'success' for every status other than
\* 'failure', whatever the logs; for 'failure' it returns 'retry' exactly
\* when the logs mention timeout in any case, also next to 'configuration
\* error', and 'rollback' otherwise; it returns nothing else.
C19_DecisionTable ==
    ret.op = "decision" =>
        LET st  == ret.arg.deployment_status
            out == ret.res.out
        IN  /\ ~ret.res.raised
            /\ out \in {"success", "retry", "rollback"}
            /\ st # "failure" => out = "success"
            /\ st = "failure" =>
                  out = IF C19_MentionsTimeout(ret.arg.error_logs)
                        THEN "retry" ELSE "rollback"

\* A failure whose logs name both a configuration error and a timeout.
C19_Witness ==
    /\ ret.op = "decision"
    /\ ret.arg.deployment_status = "failure"
    /\ ret.arg.error_logs = FragConfig \o FragTimeout
    /\ ret.res.out = "retry"

-----------------------------------------------------------------------------
(* PipelineDebugger (src/ailogs/src/pipeline_debugger.py)                  *)

ErrorText == <<"E", "R", "R", "O", "R">>

FailText == <<"F", "A", "I", "L">>

\* The test of parse_logs looking for "ERROR" only.
log_has_issue_error_only(log) == Contains(ErrorText, log)

\* "ERROR" in log or "FAIL" in log
log_has_issue(log) == Contains(ErrorText, log) \/ Contains(FailText, log)

\* parse_logs: the logs that pass the test, appended in the order visited.
parse_logs(log_list) == SelectSeq(log_list, log_has_issue)

-----------------------------------------------------------------------------
(* The debugger's logs                                                     *)

MaxFiles == 2        \* one load_logs call reads up to this many .log files
MaxLogs == 3         \* the debugger holds up to this many log texts

\* "INFO: All good"
TextAllGood ==
    <<"I", "N", "F", "O", ":", " ", "A", "l", "l", " ", "g", "o", "o", "d">>

\* "ERROR: Something went wrong"
TextError ==
    <<"E", "R", "R", "O", "R", ":", " ", "S", "o", "m", "e", "t", "h", "i",
      "n", "g", " ", "w", "e", "n", "t", " ", "w", "r", "o", "n", "g">>

\* "FAIL"
TextFail ==
    <<"F", "A", "I", "L">>

\* "error"
TextLowerError ==
    <<"e", "r", "r", "o", "r">>

\* "ERRO"
TextCutShort ==
    <<"E", "R", "R", "O">>

\* "FAILED ERROR"
TextBoth ==
    <<"F", "A", "I", "L", "E", "D", " ", "E", "R", "R", "O", "R">>

LogTexts == {TextAllGood, TextError, TextFail, TextLowerError, TextCutShort, TextBoth}

DebuggerInit ==
    /\ values = <<>>
    /\ txn_batch = <<>>
    /\ raw_line = <<>>
    /\ NoSession
    /\ clock = 0
    /\ ret = NoCall

\* load_logs: the content of every .log file of the directory is appended
\* (as is what the test assigns to self.logs).
CallDebuggerLoadLogs ==
    \E files \in SeqsUpTo(LogTexts, MaxFiles) :
        /\ Len(logs) + Len(files) <= MaxLogs
        /\ logs' = logs \o files
        /\ ret' = Call("debugger_load", files, FALSE, Ok(<<>>))
        /\ UNCHANGED <<inputVars, bankVars, clock, entries, supplied, pending, pc, series,
                       anomalies, result>>

\* parse_logs: self.logs is iterated, never assigned or modified.
CallParseLogs ==
    /\ ret' = Call("parse_logs", logs, FALSE, Ok(parse_logs(logs)))
    /\ UNCHANGED <<inputVars, clock, sessionVars>>

DebuggerNext ==
    \/ CallDebuggerLoadLogs
    \/ CallParseLogs

DebuggerSpec == DebuggerInit /\ [][DebuggerNext]_vars

-----------------------------------------------------------------------------
(* Properties of parse_logs                                                *)

\* Some consecutive characters of the log spell the word, in that case.
C20_Spells(word, log) ==
    \E i \in 0..Len(log) - Len(word) :
        \A k \in 1..Len(word) : log[i + k] = word[k]

\* C20: parse_logs returns exactly the held logs that contain "ERROR" or
\* "FAIL", in their order and one entry per held log, and the debugger's
\* logs are after the call what they were before it.
C20_ParseLogsFilters ==
    ret.op = "parse_logs" =>
        /\ logs = ret.arg
        /\ ret.res.out =
              SelectSeq(logs, LAMBDA log : C20_Spells(ErrorText, log)
                                              \/ C20_Spells(FailText, log))

\* The test's two logs and one that holds both words: two are returned.
C20_Witness ==
    /\ ret.op = "parse_logs"
    /\ logs = <<TextAllGood, TextError, TextBoth>>
    /\ ret.res.out = <<TextError, TextBoth>>

-----------------------------------------------------------------------------
(* Properties of BehaviorAnalyzer                                          *)

\* The direction of a window from its first to its last element.
C21_Direction(w) == IF w[Len(w)] > w[1] THEN 1 ELSE -1

\* C21: detect_trend_change reports index i, window <= i < len - window,
\* exactly when the first-to-last direction of values[i-window .. i-1]
\* differs from the first-to-last direction of values[i .. i+window-1].
C21_TrendChangeBothWindows ==
    (ret.op = "trend" /\ ret.arg >= 1 /\ ~ret.res.raised) =>
        \A i \in 0..Len(values) - 1 :
            (\E k \in 1..Len(ret.res.out) : ret.res.out[k] = i)
                <=> /\ i >= ret.arg
                    /\ i < Len(values) - ret.arg
                    /\ C21_Direction(Slice(values, i - ret.arg, i))
                         # C21_Direction(Slice(values, i, i + ret.arg))

\* C22: detect_level_shift with a threshold of 2.0 or more and a window of
\* at least 1 returns an empty list.
C22_LevelShiftNeverFlags ==
    (/\ ret.op = "level"
     /\ ret.arg >= 1
     /\ ret.threshold[1] >= 2 * ret.threshold[2]) =>
        /\ ~ret.res.raised
        /\ ret.res.out = <<>>

\* The step of the daily series with window 2 and the default threshold:
\* the shift at some index is above 1.5, and nothing is reported.
C22_Witness ==
    /\ ret.op = "level"
    /\ ret.arg = 2
    /\ ret.threshold = LevelShiftDefaultThreshold
    /\ values = DailyTransactions
    /\ ret.res.out = <<>>
    /\ \E i \in 2..Len(values) - 3 : LevelShifts(values, i, 2, <<3, 2>>)

-----------------------------------------------------------------------------
(* Properties of small samples                                             *)

\* The indices of the series that fall in the season of index i.
C23_Bucket(i, period) == {j \in 0..Len(values) - 1 : j % period = i % period}

\* C23: ZScoreDetector.detect with the default threshold returns an empty
\* list for every series of 8 or fewer values, and SeasonalityDetector.detect
\* flags no member of a season bucket holding 8 or fewer observations.
C23_SmallSamplesNeverFlagged ==
    /\ (ret.op = "zscore" /\ Len(values) <= 8) => ret.res.out = <<>>
    /\ (ret.op = "seasonal" /\ ~ret.res.raised) =>
          \A k \in 1..Len(ret.res.out) :
              Cardinality(C23_Bucket(ret.res.out[k].metric_name[2], ret.arg)) > 8

\* Seven readings of 5 and one of 100: the largest z-score eight points can
\* have, 7/sqrt(8), and nothing is returned.
C23_Witness ==
    /\ ret.op = "zscore"
    /\ values = SpikeSeries(8, TRUE, 8, 100)
    /\ ret.res.out = <<>>

-----------------------------------------------------------------------------
(* Properties of SeasonalityDetector                                       *)

\* The values of the bucket of index i: those at i mod period, + period, ...
C24_BucketValues(i, period) ==
    LET first == i % period
        n == Cardinality({j \in 0..Len(values) - 1 : j % period = first})
    IN  [k \in 1..n |-> values[first + (k - 1) * period + 1]]

\* The index an anomaly of SeasonalityDetector.detect is reported for.
C24_IndexOf(a) == a.metric_name[2]

\* C24: SeasonalityDetector.detect returns empty for fewer than 2*period
\* values; otherwise index i is reported exactly when its bucket has at least
\* 2 members, a positive deviation and |values[i] - mean| / stdev > 2.5; every
\* anomaly is of type seasonal with its bucket mean as expected_value, and no
\* index is reported twice.
C24_SeasonalRule ==
    (ret.op = "seasonal" /\ ~ret.res.raised) =>
        LET out == ret.res.out
            period == ret.arg
        IN  IF Len(values) < 2 * period THEN out = <<>>
            ELSE /\ \A i \in 0..Len(values) - 1 :
                       (\E k \in 1..Len(out) : C24_IndexOf(out[k]) = i)
                          <=> LET bucket == C24_BucketValues(i, period)
                              IN  /\ Len(bucket) >= 2
                                  /\ SSD(bucket) > 0
                                  /\ ZExceeds(values[i + 1], Stats(bucket), <<5, 2>>)
                 /\ \A k \in 1..Len(out) :
                       /\ out[k].anomaly_type = "seasonal"
                       /\ SameNumber(out[k].expected_value,
                                     Mean(C24_BucketValues(C24_IndexOf(out[k]), period)))
                 /\ \A k1, k2 \in 1..Len(out) :
                       C24_IndexOf(out[k1]) = C24_IndexOf(out[k2]) => k1 = k2

\* Period 2 on the alternating series: the far reading at index 19 is the
\* one report, against its own season's mean, 100/10.
C24_Witness ==
    /\ ret.op = "seasonal"
    /\ ret.arg = 2
    /\ values = SeasonalSpike
    /\ Len(ret.res.out) = 1
    /\ C24_IndexOf(ret.res.out[1]) = 19
    /\ SameNumber(ret.res.out[1].expected_value, <<10, 1>>)

-----------------------------------------------------------------------------
(* Properties of detect_fraud_patterns on longer batches                   *)

\* The instants of an account's records in the batch.
C25_InstantsOf(account) ==
    {fromisoformat(txn_batch[k].timestamp).out :
        k \in {j \in 1..Len(txn_batch) : txn_batch[j].from_account = account}}

\* The number of the account's records in the batch.
C25_Count(account) ==
    Cardinality({j \in 1..Len(txn_batch) : txn_batch[j].from_account = account})

\* The instants of the account's first five records in timestamp order.
C25_FirstFive(account) ==
    {t \in C25_InstantsOf(account) :
        Cardinality({u \in C25_InstantsOf(account) : u < t}) < 5}

\* The anomalies returned for the account.
C25_Of(account) == SelectSeq(ret.res.out, LAMBDA a : a.context.account_id = account)

\* C25: per source account detect_fraud_patterns emits nothing for fewer
\* than 5 records; otherwise at most four anomalies, each for two consecutive
\* records among the account's first five in timestamp order, with a gap g,
\* 0 <= g < 60; a gap between later records produces no anomaly.
C25_FirstFiveOnly ==
    ret.op = "fraud" =>
        \A account \in {"ACC-FRAUD-TEST", OtherAccount} :
            LET found == C25_Of(account)
                five  == C25_FirstFive(account)
            IN  /\ C25_Count(account) < 5 => found = <<>>
                /\ Len(found) <= 4
                /\ \A k \in 1..Len(found) :
                      /\ 0 <= found[k].value
                      /\ found[k].value < 60
                      /\ \E t1, t2 \in five :
                            /\ t1 < t2
                            /\ \A u \in five : ~(t1 < u /\ u < t2)
                            /\ found[k].timestamp = t2
                            /\ found[k].value = t2 - t1

-----------------------------------------------------------------------------
(* LogAnalyzer.detect_trends (log_analyzer.py)                             *)
(*                                                                         *)
(* Instants are counted in half hours from 2024-01-18 00:00.  The wall     *)
(* clock reads 2024-01-19 12:00 at clock 0 and an hour more per tick.      *)

\* datetime.now() at the given clock reading.
NowAt(now) == 72 + 2 * now

\* timedelta(hours=window_hours) for detect_trends' default, 24.
TrendWindow == 48

\* The instant of a LogEntry timestamp: a parsed date, or the wall clock
\* reading taken when strptime failed.
InstantOf(at) ==
    CASE at[1] = "now" -> NowAt(at[2])
      [] at[1] = "2024-01-19 10:30:45.123000" -> 69
      [] at[1] = "2024-01-18 13:30:45.123000" -> 27
      [] at[1] = "2024-01-18 09:30:45.123000" -> 19

\* get_entries_by_timerange(start, end): an entry without a timestamp is
\* left out.
get_entries_by_timerange(entry_list, start, end) ==
    SelectSeq(entry_list,
        LAMBDA e : /\ e.timestamp.some
                   /\ start <= InstantOf(e.timestamp.at)
                   /\ InstantOf(e.timestamp.at) <= end)

\* A _calculate_trend that splits the matching entries at (len + 1) // 2.
calculate_trend_round_up(entry_list, level) ==
    LET matching    == SelectSeq(entry_list, LAMBDA e : e.level = level)
        mid         == (Len(matching) + 1) \div 2
        first_half  == Len(SelectSeq(Slice(matching, 0, mid), LAMBDA e : e.level = level))
        second_half == Len(SelectSeq(Slice(matching, mid, Len(matching)),
                                     LAMBDA e : e.level = level))
    IN  IF matching = <<>> THEN [count |-> 0, trend |-> "stable"]
        ELSE [count          |-> Len(matching),
              trend          |-> IF second_half > first_half THEN "increasing"
                                 ELSE IF second_half < first_half THEN "decreasing"
                                 ELSE "stable",
              first_half     |-> first_half,
              second_half    |-> second_half,
              change_percent |-> IF first_half > 0
                                 THEN <<(second_half - first_half) * 100, first_half>>
                                 ELSE <<0, 1>>]

\* LogAnalyzer._calculate_trend: the entries of the level, split at
\* len // 2 of that list; change_percent is kept as a fraction.
calculate_trend(entry_list, level) ==
    LET matching    == SelectSeq(entry_list, LAMBDA e : e.level = level)
        mid         == Len(matching) \div 2
        first_half  == Len(SelectSeq(Slice(matching, 0, mid), LAMBDA e : e.level = level))
        second_half == Len(SelectSeq(Slice(matching, mid, Len(matching)),
                                     LAMBDA e : e.level = level))
    IN  IF matching = <<>> THEN [count |-> 0, trend |-> "stable"]
        ELSE [count          |-> Len(matching),
              trend          |-> IF second_half > first_half THEN "increasing"
                                 ELSE IF second_half < first_half THEN "decreasing"
                                 ELSE "stable",
              first_half     |-> first_half,
              second_half    |-> second_half,
              change_percent |-> IF first_half > 0
                                 THEN <<(second_half - first_half) * 100, first_half>>
                                 ELSE <<0, 1>>]

\* 'transaction' in e.message.lower(), on the messages of the model.
MentionsTransaction(message) ==
    \E k \in 1..Len(message) : message[k].text = "Transaction processed"

\* _calculate_transaction_trend: no metadata of the model carries 'amount',
\* so the total is 0.
calculate_transaction_trend(entry_list) ==
    LET txn_entries == SelectSeq(entry_list, LAMBDA e : MentionsTransaction(e.message))
    IN  IF txn_entries = <<>> THEN [count |-> 0]
        ELSE [count |-> Len(txn_entries), total_amount |-> 0, avg_transaction |-> 0]

\* _calculate_performance_trend: no metadata of the model carries
\* 'duration_ms', so durations is empty and the result is {}.
calculate_performance_trend(entry_list) == <<>>

\* detect_trends with the default window.
detect_trends(entry_list, now) ==
    LET recent_entries ==
            get_entries_by_timerange(entry_list, NowAt(now) - TrendWindow, NowAt(now))
    IN  [error_trend       |-> calculate_trend(recent_entries, "ERROR"),
         warning_trend     |-> calculate_trend(recent_entries, "WARNING"),
         transaction_trend |-> calculate_transaction_trend(recent_entries),
         performance_trend |-> calculate_performance_trend(recent_entries)]

-----------------------------------------------------------------------------
(* Dated lines and the trend calls                                         *)

MaxTrendLines == 3   \* the analyzer is handed up to this many dated lines

\* A formatted line of the given date and level.
DatedLine(date, level, text) ==
    FormatLine(Tok("date", date), Tok("digits", "123"), Tok("word", "banking_app"),
               Tok("word", level), <<Tok("text", text)>>)

\* Lines more than a day old, in the first and in the second half of the
\* last day, with a date strptime rejects, and one that is no log line.
TrendLines ==
    {DatedLine(date, level, "Transaction processed") :
        date \in {"2024-01-18 09:30:45", "2024-01-18 13:30:45",
                  "2024-01-19 10:30:45", "2024-13-45 10:30:45"},
        level \in {"ERROR", "WARNING"}}
    \cup {<<Tok("text", "Traceback (most recent call last):")>>}

TrendInit ==
    /\ values = <<>>
    /\ txn_batch = <<>>
    /\ raw_line = <<>>
    /\ NoSession
    /\ clock = 0
    /\ ret = NoCall

\* analyzer.load_logs(log_lines) with dated lines, on the analyzer of thread A.
CallLoadDatedLogs ==
    \E log_lines \in SeqsUpTo(TrendLines, MaxBatch) :
        /\ Len(supplied["A"]) + Len(log_lines) <= MaxTrendLines
        /\ entries' = [entries EXCEPT !["A"] = load_logs(@, log_lines, clock)]
        /\ supplied' = [supplied EXCEPT !["A"] = @ \o log_lines]
        /\ ret' = Call("load", log_lines, FALSE, Ok(<<>>))
        /\ UNCHANGED <<inputVars, logs, bankVars, clock, pending, pc, series, anomalies, result>>

\* analyzer.detect_trends(); the call record keeps the clock reading.
CallDetectTrends ==
    /\ ret' = Call("trends", clock, FALSE, Ok(detect_trends(entries["A"], clock)))
    /\ UNCHANGED <<inputVars, clock, sessionVars>>

TrendNext ==
    \/ Tick
    \/ CallLoadDatedLogs
    \/ CallDetectTrends

TrendSpec == TrendInit /\ [][TrendNext]_vars

-----------------------------------------------------------------------------
(* Properties of detect_trends                                             *)

\* The trends detect_trends returns per severity.
C26_TrendOf(level) ==
    IF level = "ERROR" THEN ret.res.out.error_trend ELSE ret.res.out.warning_trend

\* The number of the analyzer's entries of the level whose timestamp lies
\* in the half-open interval from lo to hi.
C26_Events(level, lo, hi) ==
    Cardinality({k \in 1..Len(entries["A"]) :
        /\ entries["A"][k].level = level
        /\ entries["A"][k].timestamp.some
        /\ lo <= InstantOf(entries["A"][k].timestamp.at)
        /\ InstantOf(entries["A"][k].timestamp.at) < hi})

\* C26: per severity, with first and second the event counts of the first
\* and the second half of the window, the direction is increasing,
\* decreasing or stable as second is greater than, less than or equal to
\* first; change_percent is (second - first) / first * 100 for first > 0 and
\* 0 for first = 0; with no events the result is count 0 and stable.
C26_TrendComparesHalves ==
    ret.op = "trends" =>
        \A level \in {"ERROR", "WARNING"} :
            LET end    == NowAt(ret.arg)
                mid    == end - TrendWindow \div 2
                first  == C26_Events(level, end - TrendWindow, mid)
                second == C26_Events(level, mid, end + 1)
                found  == C26_TrendOf(level)
            IN  IF first + second = 0
                THEN found.count = 0 /\ found.trend = "stable"
                ELSE /\ found.trend = IF second > first THEN "increasing"
                                      ELSE IF second < first THEN "decreasing"
                                      ELSE "stable"
                     /\ SameNumber(found.change_percent,
                                   IF first > 0 THEN <<(second - first) * 100, first>>
                                   ELSE <<0, 1>>)

\* C27: _calculate_trend never answers decreasing: the direction is stable
\* exactly when the number of matching entries is even or zero and
\* increasing exactly when it is odd, whatever the entries' timestamps.
C27_NeverDecreasing ==
    ret.op = "trends" =>
        \A level \in {"ERROR", "WARNING"} :
            LET n == C26_Events(level, NowAt(ret.arg) - TrendWindow, NowAt(ret.arg) + 1)
            IN  /\ C26_TrendOf(level).trend # "decreasing"
                /\ C26_TrendOf(level).trend = "stable" <=> n % 2 = 0
                /\ C26_TrendOf(level).trend = "increasing" <=> n % 2 = 1

\* Two errors in the first half of the day and one, earlier in the list, in
\* the second half: three in all, and the answer is increasing.
C27_Witness ==
    /\ ret.op = "trends"
    /\ Len(entries["A"]) = 3
    /\ \A k \in 1..3 : entries["A"][k].level = "ERROR"
    /\ InstantOf(entries["A"][1].timestamp.at) = 69
    /\ InstantOf(entries["A"][2].timestamp.at) = 27
    /\ InstantOf(entries["A"][3].timestamp.at) = 27
    /\ ret.res.out.error_trend.trend = "increasing"

-----------------------------------------------------------------------------
(* LogAnalyzer.get_error_summary (log_analyzer.py)                         *)

\* get_entries_by_level(level): level.upper() is the level itself for the
\* upper-case level asked for.
get_entries_by_level(entry_list, level) ==
    SelectSeq(entry_list, LAMBDA e : e.level = level)

\* What json.loads gives under the key 'error_type' for the JSON texts of
\* the model: a string, a list (which cannot be a dict key), or no such key.
ErrorTypeOf(json_text) ==
    CASE json_text = "{\"error_type\": \"ValueError\"}" ->
             [present |-> TRUE, hashable |-> TRUE, key |-> "ValueError"]
      [] json_text = "{\"error_type\": [\"Timeout\"]}" ->
             [present |-> TRUE, hashable |-> FALSE, key |-> ""]
      [] OTHER -> [present |-> FALSE, hashable |-> TRUE, key |-> ""]

\* The first match of (\w+Error|\w+Exception) in a piece of message text,
\* or "" for none; a bare 'Error' has no word character before it.
ErrorWordIn(text) ==
    CASE text = "ConnectionError while saving"   -> "ConnectionError"
      [] text = "TimeoutException then KeyError" -> "TimeoutException"
      [] text = "{\"detail\": \"KeyError\"}"     -> "KeyError"
      [] OTHER -> ""

\* re.search over the whole message: the match in the first piece that has one.
RECURSIVE ErrorWord(_)
ErrorWord(message) ==
    IF message = <<>> THEN ""
    ELSE IF ErrorWordIn(Head(message).text) # "" THEN ErrorWordIn(Head(message).text)
    ELSE ErrorWord(Tail(message))

\* The token one error is counted under.
error_token(error) ==
    IF error.metadata # <<>> /\ ErrorTypeOf(error.metadata[1]).present
    THEN ErrorTypeOf(error.metadata[1]).key
    ELSE IF ErrorWord(error.message) # "" THEN ErrorWord(error.message)
    ELSE "Unknown"

\* error_types[...] += 1 hashes its key: a list under 'error_type' raises.
Unhashable(error) ==
    /\ error.metadata # <<>>
    /\ ErrorTypeOf(error.metadata[1]).present
    /\ ~ErrorTypeOf(error.metadata[1]).hashable

\* datetime.isoformat of a LogEntry timestamp.
log_isoformat(stamp) == <<"isoformat", stamp.at>>

get_error_summary(entry_list) ==
    LET errors == get_entries_by_level(entry_list, "ERROR")
        tokens == {error_token(errors[k]) : k \in 1..Len(errors)}
    IN  IF \E k \in 1..Len(errors) : Unhashable(errors[k]) THEN Raise("TypeError")
        ELSE Ok([total_errors    |-> Len(errors),
                 error_breakdown |->
                     [token \in tokens |->
                         Cardinality({k \in 1..Len(errors) : error_token(errors[k]) = token})],
                 first_error     |-> IF errors # <<>>
                                     THEN log_isoformat(errors[1].timestamp)
                                     ELSE <<"None">>,
                 last_error      |-> IF errors # <<>>
                                     THEN log_isoformat(errors[Len(errors)].timestamp)
                                     ELSE <<"None">>])

-----------------------------------------------------------------------------
(* Error lines and the summary calls                                       *)

MaxSummaryLines == 3 \* the analyzer is handed up to this many error lines

\* An ERROR line of the documented format with the given message.
ErrorLine(date, message) ==
    FormatLine(Tok("date", date), Tok("digits", "123"), Tok("word", "banking_app"),
               Tok("word", "ERROR"), message)

SummaryLines ==
    { GoodLine,
      MalformedLine,
      BareLine,
      <<Tok("text", "Traceback (most recent call last):")>>,
      ErrorLine("2024-01-19 10:30:45", <<Tok("text", "ConnectionError while saving")>>),
      ErrorLine("2024-01-18 13:30:45", <<Tok("text", "TimeoutException then KeyError")>>),
      ErrorLine("2024-01-19 10:30:45", <<Tok("text", "Transfer failed: ")>>),
      ErrorLine("2024-01-18 13:30:45",
                <<Tok("text", "Lookup: "), Tok("json", "{\"detail\": \"KeyError\"}")>>),
      ErrorLine("2024-01-19 10:30:45",
                <<Tok("text", "Transfer failed: "),
                  Tok("json", "{\"error_type\": [\"Timeout\"]}")>>) }

SummaryInit ==
    /\ values = <<>>
    /\ txn_batch = <<>>
    /\ raw_line = <<>>
    /\ NoSession
    /\ clock = 0
    /\ ret = NoCall

\* analyzer.load_logs(log_lines) with error lines, on the analyzer of thread A.
CallLoadErrorLogs ==
    \E log_lines \in SeqsUpTo(SummaryLines, MaxBatch) :
        /\ Len(supplied["A"]) + Len(log_lines) <= MaxSummaryLines
        /\ entries' = [entries EXCEPT !["A"] = load_logs(@, log_lines, clock)]
        /\ supplied' = [supplied EXCEPT !["A"] = @ \o log_lines]
        /\ ret' = Call("load", log_lines, FALSE, Ok(<<>>))
        /\ UNCHANGED <<inputVars, logs, bankVars, clock, pending, pc, series, anomalies, result>>

\* analyzer.get_error_summary()
CallErrorSummary ==
    /\ ret' = Call("summary", 0, FALSE, get_error_summary(entries["A"]))
    /\ UNCHANGED <<inputVars, clock, sessionVars>>

SummaryNext ==
    \/ Tick
    \/ CallLoadErrorLogs
    \/ CallErrorSummary

SummarySpec == SummaryInit /\ [][SummaryNext]_vars

-----------------------------------------------------------------------------
(* Properties of get_error_summary                                         *)

\* The positions of the ERROR entries of the analyzer, in load order.
C28_Errors == {k \in 1..Len(entries["A"]) : entries["A"][k].level = "ERROR"}

\* The sum of the counts of a breakdown.
RECURSIVE C28_Total(_, _)
C28_Total(breakdown, tokens) ==
    IF tokens = {} THEN 0
    ELSE LET token == CHOOSE x \in tokens : TRUE
         IN  breakdown[token] + C28_Total(breakdown, tokens \ {token})

\* C28: after any sequence of load_logs calls get_error_summary does not
\* raise; total_errors is the number of ERROR entries, the counts of
\* error_breakdown sum to it, and first_error and last_error are the
\* timestamps of the first and the last ERROR entry in load order, or None
\* when there is none.
C28_ErrorSummary ==
    ret.op = "summary" =>
        /\ ~ret.res.raised
        /\ ret.res.out.total_errors = Cardinality(C28_Errors)
        /\ C28_Total(ret.res.out.error_breakdown, DOMAIN ret.res.out.error_breakdown)
              = ret.res.out.total_errors
        /\ IF C28_Errors = {}
           THEN /\ ret.res.out.first_error = <<"None">>
                /\ ret.res.out.last_error = <<"None">>
           ELSE LET first == CHOOSE k \in C28_Errors : \A j \in C28_Errors : k <= j
                    last  == CHOOSE k \in C28_Errors : \A j \in C28_Errors : j <= k
                IN  /\ ret.res.out.first_error[2] = entries["A"][first].timestamp.at
                    /\ ret.res.out.last_error[2] = entries["A"][last].timestamp.at

-----------------------------------------------------------------------------
(* banking_app (src/app/banking_app.py)                                    *)
(*                                                                         *)
(* A float is [nan, v]: the whole number v, or not-a-number.  Every        *)
(* comparison with not-a-number is false and every sum with it is          *)
(* not-a-number.                                                           *)

Num(v) == [nan |-> FALSE, v |-> v]

NaN == [nan |-> TRUE, v |-> 0]

\* a < b
FLess(a, b) == ~a.nan /\ ~b.nan /\ a.v < b.v

\* a <= b
FLessEq(a, b) == ~a.nan /\ ~b.nan /\ a.v <= b.v

\* a == b
FEq(a, b) == ~a.nan /\ ~b.nan /\ a.v = b.v

\* a + b
FAdd(a, b) == IF a.nan \/ b.nan THEN NaN ELSE Num(a.v + b.v)

\* a - b
FSub(a, b) == IF a.nan \/ b.nan THEN NaN ELSE Num(a.v - b.v)

\* A JSON value under 'amount': a number, the text 'nan', or other text.
JsonNumber(v) == [kind |-> "number", v |-> v]

JsonNan == [kind |-> "nan", v |-> 0]

JsonText == [kind |-> "text", v |-> 0]

\* float(data['amount']): ValueError for text that is no number.
float(value) ==
    IF value.kind = "number" THEN Ok(Num(value.v))
    ELSE IF value.kind = "nan" THEN Ok(NaN)
    ELSE Raise("ValueError")

\* The Transaction appended to transactions_log, status set to 'completed'.
\* Its uuid and its utcnow timestamp are left out.
Transaction(from_account, to_account, amount, transaction_type) ==
    [from_account |-> from_account, to_account |-> to_account, amount |-> amount,
     type |-> transaction_type, status |-> "completed"]

\* What a handler leaves: the store, the log and its response.
Handled(accounts, log, response) ==
    [accounts |-> accounts, log |-> log, response |-> response]

\* The validation of transfer_funds up to the account lookup: the
\* ValueError raised, or "" when the request goes on to the balance check.
transfer_rejection(accounts, data) ==
    IF ~({"from_account", "to_account", "amount"} \subseteq DOMAIN data) THEN "Missing fields"
    ELSE IF float(data.amount).raised THEN "could not convert string to float"
    ELSE IF data.from_account = data.to_account THEN "Cannot transfer to the same account"
    ELSE IF FLessEq(float(data.amount).out, Num(0)) THEN "Transfer amount must be positive"
    ELSE IF data.from_account \notin DOMAIN accounts \/ data.to_account \notin DOMAIN accounts
    THEN "One or both accounts not found"
    ELSE ""

\* transfer_funds, one request handled from start to end.
transfer_funds(accounts, log, data) ==
    IF transfer_rejection(accounts, data) # ""
    THEN Handled(accounts, log, Raise("ValueError"))
    ELSE LET amount   == float(data.amount).out
             debited  == [accounts EXCEPT ![data.from_account] = FSub(@, amount)]
             credited == [debited EXCEPT ![data.to_account] = FAdd(@, amount)]
         IN  IF FLess(accounts[data.from_account], amount)
             THEN Handled(accounts, log, Raise("ValueError"))
             ELSE Handled(credited,
                          Append(log, Transaction(data.from_account, data.to_account,
                                                  amount, "transfer")),
                          Ok("completed"))

\* The validation of deposit_funds.
deposit_rejection(accounts, data) ==
    IF ~({"account_id", "amount"} \subseteq DOMAIN data) THEN "Missing fields"
    ELSE IF float(data.amount).raised THEN "could not convert string to float"
    ELSE IF data.account_id \notin DOMAIN accounts THEN "Account not found"
    ELSE IF FLessEq(float(data.amount).out, Num(0)) THEN "Deposit amount must be positive"
    ELSE ""

\* deposit_funds, one request handled from start to end.
deposit_funds(accounts, log, data) ==
    IF deposit_rejection(accounts, data) # ""
    THEN Handled(accounts, log, Raise("ValueError"))
    ELSE LET amount == float(data.amount).out
         IN  Handled([accounts EXCEPT ![data.account_id] = FAdd(@, amount)],
                     Append(log, Transaction("system", data.account_id, amount, "deposit")),
                     Ok("completed"))

-----------------------------------------------------------------------------
(* Requests, handled one at a time                                         *)

MaxTransactions == 2 \* transactions_log grows to this length

\* The accounts created, and an id no account has.
AccountIds == {"ACC-1", "ACC-2"}

UnknownAccount == "ACC-9"

Amounts == {JsonNumber(-10), JsonNumber(0), JsonNumber(30), JsonNumber(100),
            JsonNan, JsonText}

TransferRequests ==
    {[from_account |-> f, to_account |-> t, amount |-> a] :
        f \in AccountIds \cup {UnknownAccount},
        t \in AccountIds \cup {UnknownAccount}, a \in Amounts}
    \cup {[from_account |-> "ACC-1", amount |-> JsonNumber(30)]}

DepositRequests ==
    {[account_id |-> acc, amount |-> a] :
        acc \in AccountIds \cup {UnknownAccount}, a \in Amounts}
    \cup {[account_id |-> "ACC-1"]}

\* The accounts have been created with balances of 0 or 100.
BankInit ==
    /\ values = <<>>
    /\ txn_batch = <<>>
    /\ raw_line = <<>>
    /\ NoAnalysis
    /\ clock = 0
    /\ ret = NoCall
    /\ accounts_db \in [AccountIds -> {Num(0), Num(100)}]
    /\ transactions_log = <<>>
    /\ frame = [t \in Threads |-> <<>>]

\* POST /api/transactions/transfer
CallTransferFunds ==
    \E data \in TransferRequests :
        LET handled == transfer_funds(accounts_db, transactions_log, data)
        IN  /\ Len(transactions_log) < MaxTransactions
            /\ accounts_db' = handled.accounts
            /\ transactions_log' = handled.log
            /\ ret' = Call("transfer", data, FALSE, handled.response)
            /\ UNCHANGED <<inputVars, clock, entries, supplied, pending, pc, series,
                           anomalies, result, logs, frame>>

\* POST /api/transactions/deposit
CallDepositFunds ==
    \E data \in DepositRequests :
        LET handled == deposit_funds(accounts_db, transactions_log, data)
        IN  /\ Len(transactions_log) < MaxTransactions
            /\ accounts_db' = handled.accounts
            /\ transactions_log' = handled.log
            /\ ret' = Call("deposit", data, FALSE, handled.response)
            /\ UNCHANGED <<inputVars, clock, entries, supplied, pending, pc, series,
                           anomalies, result, logs, frame>>

BankNext ==
    \/ CallTransferFunds
    \/ CallDepositFunds

BankSpec == BankInit /\ [][BankNext]_vars

-----------------------------------------------------------------------------
(* Properties of transfer_funds                                            *)

\* The sum of the balances of the given store.
C29_Total(accounts) == FAdd(accounts["ACC-1"], accounts["ACC-2"])

\* C29: a transfer_funds request handled on its own is either rejected, with
\* every balance and transactions_log unchanged, or debits the source and
\* credits the destination by exactly the amount, leaves the sum of all
\* balances unchanged and appends exactly one completed transaction.
C29_TransferAtomic ==
    [][ret'.op = "transfer" =>
          IF ret'.res.raised
          THEN accounts_db' = accounts_db /\ transactions_log' = transactions_log
          ELSE LET data   == ret'.arg
                   amount == float(data.amount).out
               IN  /\ FEq(accounts_db'[data.from_account],
                          FSub(accounts_db[data.from_account], amount))
                   /\ FEq(accounts_db'[data.to_account],
                          FAdd(accounts_db[data.to_account], amount))
                   /\ FEq(C29_Total(accounts_db'), C29_Total(accounts_db))
                   /\ Len(transactions_log') = Len(transactions_log) + 1
                   /\ transactions_log'[Len(transactions_log')].status = "completed"
                   /\ SubSeq(transactions_log', 1, Len(transactions_log)) = transactions_log
      ]_vars

-----------------------------------------------------------------------------
(* Requests handled by concurrent threads                                  *)
(*                                                                         *)
(* app.run serves each request in a thread of its own, and the handlers    *)
(* take no lock.  'balance -= amount' is a read of the attribute, a        *)
(* subtraction and a write of the attribute; another thread can run        *)
(* between any two of them and between the balance check and the debit.    *)
(* frame[t] holds the locals of the request thread t is handling.          *)

\* The balances the accounts have been created with.
OpeningBalances == [a \in AccountIds |-> IF a = "ACC-1" THEN Num(100) ELSE Num(0)]

\* The requests the threads send; every amount is a number.
ConcTransfers ==
    {[from_account |-> f, to_account |-> t, amount |-> a] :
        f \in AccountIds, t \in AccountIds, a \in {JsonNumber(0), JsonNumber(100)}}

ConcDeposits ==
    {[account_id |-> acc, amount |-> a] :
        acc \in {"ACC-1", UnknownAccount}, a \in {JsonNumber(30)}}

\* The locals of a handler: the request, the amount, the balance last read
\* and the response once there is one.
Locals(data, amount, loaded, response) ==
    [data |-> data, amount |-> amount, loaded |-> loaded, response |-> response]

BankConcInit ==
    /\ values = <<>>
    /\ txn_batch = <<>>
    /\ raw_line = <<>>
    /\ NoAnalysis
    /\ clock = 0
    /\ ret = NoCall
    /\ accounts_db = OpeningBalances
    /\ transactions_log = <<>>
    /\ frame = [t \in Threads |-> <<>>]

\* What the steps of a request leave alone.
OutsideBank == <<inputVars, clock, ret, entries, supplied, pending, series, anomalies,
                 result, logs>>

\* Lines 273-295 of transfer_funds: the validation and the account lookup.
BeginTransfer(t) ==
    /\ pc[t] = "idle"
    /\ Len(transactions_log) < MaxTransactions
    /\ \E data \in ConcTransfers :
          IF transfer_rejection(accounts_db, data) # ""
          THEN /\ frame' = [frame EXCEPT ![t] =
                                Locals(data, Num(0), Num(0), Raise("ValueError"))]
               /\ UNCHANGED pc
          ELSE /\ frame' = [frame EXCEPT ![t] =
                                Locals(data, float(data.amount).out, Num(0), Ok("handling"))]
               /\ pc' = [pc EXCEPT ![t] = "check_balance"]
    /\ UNCHANGED <<OutsideBank, accounts_db, transactions_log>>

\* Lines 297-298: if from_account.balance < amount: raise ValueError.
CheckBalance(t) ==
    /\ pc[t] = "check_balance"
    /\ IF FLess(accounts_db[frame[t].data.from_account], frame[t].amount)
       THEN /\ frame' = [frame EXCEPT ![t].response = Raise("ValueError")]
            /\ pc' = [pc EXCEPT ![t] = "idle"]
       ELSE /\ pc' = [pc EXCEPT ![t] = "debit_load"]
            /\ UNCHANGED frame
    /\ UNCHANGED <<OutsideBank, accounts_db, transactions_log>>

\* Line 301, the read of from_account.balance.
DebitLoad(t) ==
    /\ pc[t] = "debit_load"
    /\ frame' = [frame EXCEPT ![t].loaded = accounts_db[frame[t].data.from_account]]
    /\ pc' = [pc EXCEPT ![t] = "debit_store"]
    /\ UNCHANGED <<OutsideBank, accounts_db, transactions_log>>

\* Line 301, the write of from_account.balance.
DebitStore(t) ==
    /\ pc[t] = "debit_store"
    /\ accounts_db' = [accounts_db EXCEPT ![frame[t].data.from_account] =
                            FSub(frame[t].loaded, frame[t].amount)]
    /\ pc' = [pc EXCEPT ![t] = "credit_load"]
    /\ UNCHANGED <<OutsideBank, frame, transactions_log>>

\* Line 302, the read of to_account.balance.
CreditLoad(t) ==
    /\ pc[t] = "credit_load"
    /\ frame' = [frame EXCEPT ![t].loaded = accounts_db[frame[t].data.to_account]]
    /\ pc' = [pc EXCEPT ![t] = "credit_store"]
    /\ UNCHANGED <<OutsideBank, accounts_db, transactions_log>>

\* Line 302, the write of to_account.balance.
CreditStore(t) ==
    /\ pc[t] = "credit_store"
    /\ accounts_db' = [accounts_db EXCEPT ![frame[t].data.to_account] =
                            FAdd(frame[t].loaded, frame[t].amount)]
    /\ pc' = [pc EXCEPT ![t] = "transfer_log"]
    /\ UNCHANGED <<OutsideBank, frame, transactions_log>>

\* Lines 305-313: the Transaction is created, completed and appended.
AppendTransfer(t) ==
    /\ pc[t] = "transfer_log"
    /\ transactions_log' =
          Append(transactions_log,
                 Transaction(frame[t].data.from_account, frame[t].data.to_account,
                             frame[t].amount, "transfer"))
    /\ frame' = [frame EXCEPT ![t].response = Ok("completed")]
    /\ pc' = [pc EXCEPT ![t] = "idle"]
    /\ UNCHANGED <<OutsideBank, accounts_db>>

\* Lines 369-383 of deposit_funds: the validation and the account lookup.
BeginDeposit(t) ==
    /\ pc[t] = "idle"
    /\ Len(transactions_log) < MaxTransactions
    /\ \E data \in ConcDeposits :
          IF deposit_rejection(accounts_db, data) # ""
          THEN /\ frame' = [frame EXCEPT ![t] =
                                Locals(data, Num(0), Num(0), Raise("ValueError"))]
               /\ UNCHANGED pc
          ELSE /\ frame' = [frame EXCEPT ![t] =
                                Locals(data, float(data.amount).out, Num(0), Ok("handling"))]
               /\ pc' = [pc EXCEPT ![t] = "deposit_load"]
    /\ UNCHANGED <<OutsideBank, accounts_db, transactions_log>>

\* Line 384, the read of account.balance.
DepositLoad(t) ==
    /\ pc[t] = "deposit_load"
    /\ frame' = [frame EXCEPT ![t].loaded = accounts_db[frame[t].data.account_id]]
    /\ pc' = [pc EXCEPT ![t] = "deposit_store"]
    /\ UNCHANGED <<OutsideBank, accounts_db, transactions_log>>

\* Line 384, the write of account.balance.
DepositStore(t) ==
    /\ pc[t] = "deposit_store"
    /\ accounts_db' = [accounts_db EXCEPT ![frame[t].data.account_id] =
                            FAdd(frame[t].loaded, frame[t].amount)]
    /\ pc' = [pc EXCEPT ![t] = "deposit_log"]
    /\ UNCHANGED <<OutsideBank, frame, transactions_log>>

\* Lines 387-395: the Transaction is created, completed and appended.
AppendDeposit(t) ==
    /\ pc[t] = "deposit_log"
    /\ transactions_log' =
          Append(transactions_log,
                 Transaction("system", frame[t].data.account_id, frame[t].amount, "deposit"))
    /\ frame' = [frame EXCEPT ![t].response = Ok("completed")]
    /\ pc' = [pc EXCEPT ![t] = "idle"]
    /\ UNCHANGED <<OutsideBank, accounts_db>>

BankConcNext ==
    \/ \E t \in Threads : BeginTransfer(t)
    \/ \E t \in Threads : CheckBalance(t)
    \/ \E t \in Threads : DebitLoad(t)
    \/ \E t \in Threads : DebitStore(t)
    \/ \E t \in Threads : CreditLoad(t)
    \/ \E t \in Threads : CreditStore(t)
    \/ \E t \in Threads : AppendTransfer(t)
    \/ \E t \in Threads : BeginDeposit(t)
    \/ \E t \in Threads : DepositLoad(t)
    \/ \E t \in Threads : DepositStore(t)
    \/ \E t \in Threads : AppendDeposit(t)

BankConcSpec == BankConcInit /\ [][BankConcNext]_vars

-----------------------------------------------------------------------------
(* Properties of concurrent transfers and deposits                         *)

\* The amounts of the deposits in the given log, added up.
RECURSIVE C30_Deposited(_)
C30_Deposited(log) ==
    IF log = <<>> THEN Num(0)
    ELSE FAdd(C30_Deposited(Tail(log)),
              IF Head(log).type = "deposit" THEN Head(log).amount ELSE Num(0))

\* C30: under every interleaving of transfer_funds and deposit_funds requests
\* no balance is below zero, and once every request has been handled the sum
\* of the balances is the opening sum plus the deposited amounts.
C30_NoOverdraftNoLostUpdate ==
    /\ \A a \in AccountIds : ~FLess(accounts_db[a], Num(0))
    /\ (\A t \in Threads : pc[t] = "idle") =>
          FEq(C29_Total(accounts_db),
              FAdd(C29_Total(OpeningBalances), C30_Deposited(transactions_log)))

=============================================================================
